---------------------------- MODULE Spec2Model ----------------------------
(***************************************************************************)
(* A model of the VM assessment pipeline of web_app:                       *)
(*   - OracleCloudPricingCalculator (pricing/oracle_cloud_pricing.py),     *)
(*   - VMSpec, VMAssessment, BOMLineItem, BillOfMaterials                  *)
(*     (models/vm_models.py),                                              *)
(*   - VMAssessmentProcessor.process (processors/base_processor.py),       *)
(*   - RVToolsProcessor (processors/rvtools_processor.py),                 *)
(*   - the processing sessions of the web layer (app.py).                  *)
(*                                                                         *)
(* Ten specifications share the module.  Each one drives one object and    *)
(* leaves the variables of the others at their initial values:             *)
(*   Spec            the pricing calculator: construction, one pricing call*)
(*   SpecAssessment  a VMAssessment under add_vm and process()             *)
(*   SpecBOM         a BillOfMaterials under add_line_item                 *)
(*   SpecPipeline    RVToolsProcessor.extract_vm_data, step by step        *)
(*   SpecBill        calculate_assessment_cost on an assessment            *)
(*   SpecUnits       _convert_units on one dataset                         *)
(*   SpecStorage     a record built from an archive, under add_storage     *)
(*   SpecMapper      _map_columns on the header row of a merged table      *)
(*   SpecSession     upload_file, process_vm_assessment and get_status     *)
(*   SpecSessionLive SpecSession with every queued task run to its end     *)
(***************************************************************************)
EXTENDS Integers, Sequences, FiniteSets, TLC

VARIABLES
    \* OracleCloudPricingCalculator
    config_file,       \* what pricing_config_file holds on disk
    pricing_config,    \* self.pricing_config
    hours_per_month,   \* self.hours_per_month
    currency,          \* self._currency
    vm,                \* the argument of the calculate_vm_cost call
    ocpu_count,        \* the local ocpu_count of calculate_vm_cost
    cost_items,        \* the list calculate_vm_cost returns
    calc_pc,           \* "new", "ready", "init_raised", "priced", "raised",
                       \* "billed" (the bill was returned), "amended" (a
                       \* line item was added to the returned bill)
    \* VMAssessment
    vms, total_vms, powered_on_vms, source_format,
    metadata,          \* assessment.metadata, a dict
    assess_pc,         \* "built" (extract_vm_data's result), "processed"
    \* BillOfMaterials
    line_items, bom_currency,
    pricing_source,    \* bom.pricing_source, "" for None
    \* RVToolsProcessor.extract_vm_data
    csv_data,          \* the mapping _read_csv_files returns, in dict order
    agg_fails,         \* whether pandas' groupby().agg() raises in this run
    aggregated,        \* the result of each _aggregate_vm_data call
    merged_data,       \* _merge_vm_data's result
    vm_specs,          \* _convert_to_vm_specs's result
    column_mapping,    \* the column_map of _convert_to_vm_specs
    extract_pc,        \* "start", "read", "merged", "converted", "returned",
                       \* "priced", "raised"; "normalized" in SpecUnits
    \* the web layer (app.py)
    processing_sessions,  \* the global dict of ProcessingSession objects
    response           \* what the last get_status call returned

calcVars == <<config_file, pricing_config, hours_per_month, currency, vm,
              ocpu_count, cost_items, calc_pc>>
assessVars == <<vms, total_vms, powered_on_vms, source_format,
                metadata, assess_pc>>
bomVars == <<line_items, bom_currency, pricing_source>>
pipeVars == <<csv_data, agg_fails, aggregated, merged_data, vm_specs,
              column_mapping, extract_pc>>
sessionVars == <<processing_sessions, response>>
vars == <<calcVars, assessVars, bomVars, pipeVars, sessionVars>>

-----------------------------------------------------------------------------
(* Bounds of the model.                                                    *)

MaxCores == 5          \* cpu_cores of a priced VM ranges over -1..MaxCores
MaxVms == 3            \* VMs added to one assessment
MaxItems == 3          \* line items added to one bill of materials
MaxCost == 7           \* total_cost of an added line item ranges over 1..MaxCost
MaxExtents == 3        \* storage extents of one record
MaxColumns == 3        \* columns of a header row handed to _map_columns
SignificandBits == 4   \* significand width of the scaled-down binary floats

-----------------------------------------------------------------------------
(* models/vm_models.py: enumerations and VMSpec properties.                *)

POWERED_ON == "poweredOn"
POWERED_OFF == "poweredOff"
SUSPENDED == "suspended"
UNKNOWN == "unknown"
PowerState == {POWERED_ON, POWERED_OFF, SUSPENDED, UNKNOWN}

OS_WINDOWS == "Windows"
OS_LINUX == "Linux"
OS_UNIX == "Unix"
OS_OTHER == "Other"
OS_UNKNOWN == "Unknown"
OSType == {OS_WINDOWS, OS_LINUX, OS_UNIX, OS_OTHER, OS_UNKNOWN}

RECURSIVE SumSeq(_)
SumSeq(s) == IF s = <<>> THEN 0 ELSE Head(s) + SumSeq(Tail(s))

\* A plausible slip: only the last extent is counted.
total_storage_gb_Last(v) ==
    IF v.storage = <<>> THEN 0 ELSE v.storage[Len(v.storage)]

\* VMSpec.total_storage_gb: the storage list holds the extents' capacity_gb.
total_storage_gb(v) == SumSeq(v.storage)

\* A plausible slip: every state but POWERED_OFF counts as powered on.
is_powered_on_NotOff(v) == v.power_state # POWERED_OFF

\* VMSpec.is_powered_on
is_powered_on(v) == v.power_state = POWERED_ON

-----------------------------------------------------------------------------
(* pricing/oracle_cloud_pricing.py.  Unit prices are in millionths of the  *)
(* currency unit (0.0279 is 27900); quantities of a priced VM are whole    *)
(* numbers, so every product below is exact.                               *)

DefaultHoursPerMonth == 744

Sections == {"pricing_metadata", "compute_pricing", "memory_pricing",
             "storage_pricing", "licensing_pricing"}

\* OracleCloudPricingCalculator._get_default_config
_get_default_config ==
    [pricing_metadata |->
        [currency |-> "EUR", hours_per_month |-> 744,
         pricing_source |-> "Oracle Cloud Infrastructure Price List",
         region |-> "Global"],
     compute_pricing |-> [ocpu |-> [unit_price |-> 27900, unit |-> "OCPU/hour"]],
     memory_pricing |-> [memory_gb |-> [unit_price |-> 1860, unit |-> "GB/hour"]],
     storage_pricing |->
        [block_volume |-> [unit_price |-> 23715, unit |-> "GB/month"],
         block_volume_vpu |-> [unit_price |-> 1581, unit |-> "VPU/month"]],
     licensing_pricing |->
        [windows_server |-> [unit_price |-> 85560, unit |-> "OCPU/hour"]]]

\* The JSON object a rate card file holds: the sections it has, with the
\* currency it names.  Prices are those of the shipped rate card.
ParsedDocument(file) ==
    LET full == [_get_default_config EXCEPT
                    !.pricing_metadata.currency = file.currency]
    IN [k \in file.sections |-> full[k]]

\* The rate card files the model constructs a calculator from: no file, a
\* file json.load rejects, a JSON array, and a JSON object with any subset of
\* the five sections.
ConfigFiles ==
    [kind : {"absent", "unparseable", "array"}, sections : {{}},
     currency : {"EUR"}]
    \cup [kind : {"object"}, sections : SUBSET Sections,
          currency : {"EUR", "USD"}]

\* OracleCloudPricingCalculator._load_pricing_config: the parsed document
\* when the file exists and json.load accepts it, whatever it holds; the
\* default configuration otherwise.  (A JSON array is returned as parsed;
\* the constructor then fails on it, see Construct.)
_load_pricing_config(file) ==
    IF file.kind = "object" THEN ParsedDocument(file)
    ELSE _get_default_config

\* dict.get(key, default) on a configuration
Get(d, key, default) == IF key \in DOMAIN d THEN d[key] ELSE default

\* A plausible slip: round down instead of up.
_calculate_ocpu_count_Floor(cpu_cores) ==
    IF cpu_cores <= 0 THEN 0
    ELSE IF cpu_cores = 1 THEN 1
    ELSE cpu_cores \div 2

\* OracleCloudPricingCalculator._calculate_ocpu_count
_calculate_ocpu_count(cpu_cores) ==
    IF cpu_cores <= 0 THEN 0
    ELSE IF cpu_cores = 1 THEN 1
    ELSE (cpu_cores + 1) \div 2

\* OracleCloudPricingCalculator.provider_name
provider_name == "Oracle Cloud Infrastructure"

\* A plausible slip: one VPU per GB.
VpuCount_PerGB(total_storage_gb_) == total_storage_gb_

\* vpu_count = total_storage_gb * 10
VpuCount(total_storage_gb_) == total_storage_gb_ * 10

CostItem(type, quantity, unit, unit_price, total) ==
    [component_type |-> type, quantity |-> quantity, unit |-> unit,
     unit_price |-> unit_price, total_cost |-> total,
     pricing_model |-> "on-demand"]

\* A plausible slip: the component is appended whether wanted or not.
CostStep_Unguarded(acc, cfg, wanted, section, items) ==
    IF acc.raised THEN acc
    ELSE IF section \notin DOMAIN cfg THEN [acc EXCEPT !.raised = TRUE]
    ELSE [acc EXCEPT !.items = acc.items \o items]

\* One step of calculate_vm_cost: when `wanted`, read the prices of `section`
\* (a KeyError when the configuration lacks it) and append `items`.
CostStep(acc, cfg, wanted, section, items) ==
    IF acc.raised \/ ~wanted THEN acc
    ELSE IF section \notin DOMAIN cfg THEN [acc EXCEPT !.raised = TRUE]
    ELSE [acc EXCEPT !.items = acc.items \o items]

\* OracleCloudPricingCalculator.calculate_vm_cost, after the early return
\* for a VM that is not powered on.
PoweredOnCost(cfg, hours, v, ocpu) ==
    LET storage == total_storage_gb(v)
        s0 == [raised |-> FALSE, items |-> <<>>]
        s1 == CostStep(s0, cfg, ocpu > 0, "compute_pricing",
                LET monthly == cfg.compute_pricing.ocpu.unit_price * hours
                IN <<CostItem("Compute", ocpu, "OCPU", monthly, ocpu * monthly)>>)
        s2 == CostStep(s1, cfg, v.memory_gb > 0, "memory_pricing",
                LET monthly == cfg.memory_pricing.memory_gb.unit_price * hours
                IN <<CostItem("Memory", v.memory_gb, "GB", monthly,
                              v.memory_gb * monthly)>>)
        s3 == CostStep(s2, cfg, storage > 0, "storage_pricing",
                LET monthly == cfg.storage_pricing.block_volume.unit_price
                    vpu_count == VpuCount(storage)
                    vpu_monthly == cfg.storage_pricing.block_volume_vpu.unit_price
                IN <<CostItem("Storage", storage, "GB", monthly,
                              storage * monthly),
                     CostItem("Storage Performance", vpu_count, "VPU",
                              vpu_monthly, vpu_count * vpu_monthly)>>)
        s4 == CostStep(s3, cfg, v.os_type = OS_WINDOWS /\ ocpu > 0,
                "licensing_pricing",
                LET monthly == cfg.licensing_pricing.windows_server.unit_price
                               * hours
                IN <<CostItem("OS License", ocpu, "OCPU", monthly,
                              ocpu * monthly)>>)
    IN s4

\* OracleCloudPricingCalculator.calculate_vm_cost
calculate_vm_cost(cfg, hours, v) ==
    IF ~is_powered_on(v) THEN [raised |-> FALSE, items |-> <<>>]
    ELSE PoweredOnCost(cfg, hours, v, _calculate_ocpu_count(v.cpu_cores))

\* The VMs handed to calculate_vm_cost.
PricedVMs ==
    [vm_id : {"vm-1"}, vm_name : {"web"},
     cpu_cores : -1..MaxCores, memory_gb : {0, 4},
     storage : {<<>>, <<50>>, <<50, 20>>},
     os_type : {OS_WINDOWS, OS_LINUX}, power_state : PowerState]

NoVM ==
    [vm_id |-> "", vm_name |-> "", cpu_cores |-> 0, memory_gb |-> 0,
     storage |-> <<>>, os_type |-> OS_UNKNOWN, power_state |-> UNKNOWN]

CalcInit ==
    /\ config_file \in ConfigFiles
    /\ pricing_config = <<>>
    /\ hours_per_month = 0
    /\ currency = ""
    /\ vm = NoVM
    /\ ocpu_count = 0
    /\ cost_items = <<>>
    /\ calc_pc = "new"

CalcIdle ==
    /\ config_file = [kind |-> "absent", sections |-> {}, currency |-> "EUR"]
    /\ pricing_config = <<>>
    /\ hours_per_month = 0
    /\ currency = ""
    /\ vm = NoVM
    /\ ocpu_count = 0
    /\ cost_items = <<>>
    /\ calc_pc = "new"

\* OracleCloudPricingCalculator.__init__: load the configuration, then cache
\* hours_per_month and the currency with .get().  A parsed JSON array has no
\* .get: the constructor raises AttributeError.
Construct ==
    /\ calc_pc = "new"
    /\ IF config_file.kind = "array"
       THEN /\ calc_pc' = "init_raised"
            /\ UNCHANGED <<pricing_config, hours_per_month, currency>>
       ELSE LET cfg == _load_pricing_config(config_file)
                meta == Get(cfg, "pricing_metadata", <<>>)
            IN /\ pricing_config' = cfg
               /\ hours_per_month' =
                    Get(meta, "hours_per_month", DefaultHoursPerMonth)
               /\ currency' = Get(meta, "currency", "EUR")
               /\ calc_pc' = "ready"
    /\ UNCHANGED <<config_file, vm, ocpu_count, cost_items>>
    /\ UNCHANGED <<assessVars, bomVars, pipeVars, sessionVars>>

\* One call of calculate_vm_cost on the constructed calculator.
CalculateVmCost ==
    /\ calc_pc = "ready"
    /\ \E v \in PricedVMs :
          LET r == calculate_vm_cost(pricing_config, hours_per_month, v)
          IN /\ vm' = v
             /\ ocpu_count' = IF is_powered_on(v)
                              THEN _calculate_ocpu_count(v.cpu_cores)
                              ELSE 0
             /\ cost_items' = r.items
             /\ calc_pc' = IF r.raised THEN "raised" ELSE "priced"
    /\ UNCHANGED <<config_file, pricing_config, hours_per_month, currency>>
    /\ UNCHANGED <<assessVars, bomVars, pipeVars, sessionVars>>

-----------------------------------------------------------------------------
(* models/vm_models.py: VMAssessment, and the filter of                    *)
(* VMAssessmentProcessor.process (processors/base_processor.py).           *)

RECURSIVE CountPoweredOn(_)
CountPoweredOn(list) ==
    IF list = <<>> THEN 0
    ELSE (IF is_powered_on(Head(list)) THEN 1 ELSE 0) + CountPoweredOn(Tail(list))

\* VMAssessment.get_powered_on_vms
get_powered_on_vms(list) == SelectSeq(list, is_powered_on)

\* The VMs handed to add_vm: only the fields the assessment reads or stamps.
AssessedVMs ==
    [vm_id : {"vm-1", "vm-2"}, power_state : PowerState, source_format : {"None"}]

AssessInit ==
    /\ vms = <<>>
    /\ total_vms = 0
    /\ powered_on_vms = 0
    /\ source_format = "RVTools"
    /\ metadata = <<>>
    /\ assess_pc = "built"

AssessIdle == AssessInit

\* VMAssessment.add_vm: stamp the VM, append it, recompute both counts.
add_vm ==
    /\ Len(vms) < MaxVms
    /\ \E v \in AssessedVMs :
          LET list == Append(vms, [v EXCEPT !.source_format = source_format])
          IN /\ vms' = list
             /\ total_vms' = Len(list)
             /\ powered_on_vms' = CountPoweredOn(list)
    /\ UNCHANGED <<source_format, metadata, assess_pc>>
    /\ UNCHANGED <<calcVars, bomVars, pipeVars, sessionVars>>

\* VMAssessmentProcessor.process, after extract_vm_data returned the
\* assessment: unless include_powered_off, assessment.vms is replaced by the
\* powered-on VMs.  Neither count is assigned.
process ==
    /\ assess_pc = "built"
    /\ \E include \in BOOLEAN :
          vms' = IF include THEN vms ELSE get_powered_on_vms(vms)
    /\ assess_pc' = "processed"
    /\ UNCHANGED <<total_vms, powered_on_vms, source_format, metadata>>
    /\ UNCHANGED <<calcVars, bomVars, pipeVars, sessionVars>>

-----------------------------------------------------------------------------
(* models/vm_models.py: BOMLineItem and BillOfMaterials.  Costs are Python *)
(* floats: every sum and product is rounded to the significand.  The model *)
(* keeps that rounding (to nearest, ties to even) on a significand of      *)
(* SignificandBits bits instead of binary64's 53; a cost is a whole number *)
(* of the smallest amount.                                                 *)

RECURSIVE BitLength(_)
BitLength(n) == IF n = 0 THEN 0 ELSE 1 + BitLength(n \div 2)

RECURSIVE Pow2(_)
Pow2(k) == IF k = 0 THEN 1 ELSE 2 * Pow2(k - 1)

\* The float nearest to the real number n.
RoundToFloat(n) ==
    IF BitLength(n) <= SignificandBits THEN n
    ELSE LET q == Pow2(BitLength(n) - SignificandBits)
             m == n \div q
             r == n % q
         IN IF 2 * r < q THEN m * q
            ELSE IF 2 * r > q THEN (m + 1) * q
            ELSE IF m % 2 = 0 THEN m * q
            ELSE (m + 1) * q

FAdd(a, b) == RoundToFloat(a + b)
FMul(a, b) == RoundToFloat(a * b)

\* Python's sum(): a left fold of float additions from 0.
RECURSIVE FSum(_)
FSum(s) == IF s = <<>> THEN 0 ELSE FAdd(FSum(SubSeq(s, 1, Len(s) - 1)), s[Len(s)])

\* BOMLineItem.monthly_cost
monthly_cost(item) == item.total_cost

\* A plausible slip: the annual cost is the monthly cost.
annual_cost_Monthly(item) == item.total_cost

\* BOMLineItem.annual_cost
annual_cost(item) == FMul(item.total_cost, 12)

\* BillOfMaterials.total_monthly_cost
total_monthly_cost(items) == FSum([i \in 1..Len(items) |-> monthly_cost(items[i])])

\* BillOfMaterials.total_annual_cost
total_annual_cost(items) == FSum([i \in 1..Len(items) |-> annual_cost(items[i])])

\* The line items handed to add_line_item.
NewLineItems ==
    [vm_id : {"vm-1"}, component_type : {"Compute"},
     total_cost : 1..MaxCost, currency : {"EUR", "USD"}]

BomInit ==
    /\ line_items = <<>>
    /\ bom_currency \in {"EUR", "USD"}
    /\ pricing_source = ""

BomIdle ==
    /\ line_items = <<>>
    /\ bom_currency = "EUR"
    /\ pricing_source = ""

\* BillOfMaterials.add_line_item
add_line_item ==
    /\ Len(line_items) < MaxItems
    /\ \E item \in NewLineItems :
          line_items' = Append(line_items, [item EXCEPT !.currency = bom_currency])
    /\ UNCHANGED <<bom_currency, pricing_source>>
    /\ UNCHANGED <<calcVars, assessVars, pipeVars, sessionVars>>

-----------------------------------------------------------------------------
(* Strings, as Python's str methods compute them.                          *)

Upper == "ABCDEFGHIJKLMNOPQRSTUVWXYZ"
LowerLetters == "abcdefghijklmnopqrstuvwxyz"

\* The lower-case letter of every upper-case letter.
LowerOf ==
    [c \in {SubSeq(Upper, i, i) : i \in 1..Len(Upper)} |->
        LET i == CHOOSE j \in 1..Len(Upper) : SubSeq(Upper, j, j) = c
        IN SubSeq(LowerLetters, i, i)]

LowerChar(c) == IF c \in DOMAIN LowerOf THEN LowerOf[c] ELSE c

\* str.lower
RECURSIVE Lower(_)
Lower(s) ==
    IF Len(s) = 0 THEN ""
    ELSE LowerChar(SubSeq(s, 1, 1)) \o Lower(SubSeq(s, 2, Len(s)))

\* sub in s
Contains(sub, s) ==
    \E i \in 1..(Len(s) - Len(sub) + 1) : SubSeq(s, i, i + Len(sub) - 1) = sub

\* str.endswith
EndsWith(s, suffix) ==
    /\ Len(suffix) <= Len(s)
    /\ SubSeq(s, Len(s) - Len(suffix) + 1, Len(s)) = suffix

\* str.replace(old, new): every occurrence, left to right, case-sensitive.
RECURSIVE Replace(_, _, _)
Replace(s, old, new) ==
    IF Len(s) < Len(old) THEN s
    ELSE IF SubSeq(s, 1, Len(old)) = old
    THEN new \o Replace(SubSeq(s, Len(old) + 1, Len(s)), old, new)
    ELSE SubSeq(s, 1, 1) \o Replace(SubSeq(s, 2, Len(s)), old, new)

\* str.strip, for the one whitespace character the model's cells hold.
RECURSIVE Strip(_)
Strip(s) ==
    IF Len(s) = 0 THEN ""
    ELSE IF SubSeq(s, 1, 1) = " " THEN Strip(SubSeq(s, 2, Len(s)))
    ELSE IF SubSeq(s, Len(s), Len(s)) = " " THEN Strip(SubSeq(s, 1, Len(s) - 1))
    ELSE s

Digits == "0123456789"

IsDigit(c) == \E i \in 1..Len(Digits) : SubSeq(Digits, i, i) = c

DigitValue(c) == (CHOOSE i \in 1..Len(Digits) : SubSeq(Digits, i, i) = c) - 1

RECURSIVE DigitsToInt(_)
DigitsToInt(s) ==
    IF Len(s) = 0 THEN 0
    ELSE 10 * DigitsToInt(SubSeq(s, 1, Len(s) - 1))
         + DigitValue(SubSeq(s, Len(s), Len(s)))

RECURSIVE IntToDigits(_)
IntToDigits(n) ==
    IF n < 10 THEN SubSeq(Digits, n + 1, n + 1)
    ELSE IntToDigits(n \div 10) \o SubSeq(Digits, (n % 10) + 1, (n % 10) + 1)

-----------------------------------------------------------------------------
(* Cells and tables, as pandas holds them.  A cell is missing (NaN), a     *)
(* number or a string.  Numbers are in hundredths (4 cores are 400, 1 GB   *)
(* is 100): what .round(2) keeps.  A table has its column names, one dtype *)
(* per column and its rows, each row a sequence of cells in column order.  *)

Scale == 100

NaN == [t |-> "nan", n |-> 0, s |-> ""]
Num(x) == [t |-> "num", n |-> x, s |-> ""]
Str(x) == [t |-> "str", n |-> 0, s |-> x]

\* The float inf, which read_csv reads from the text inf.
Inf == [t |-> "inf", n |-> 0, s |-> ""]

\* pd.notna
notna(cell) == cell.t # "nan"

\* The dtype read_csv gives a column: numeric when every cell is a number or
\* missing, object otherwise.
InferDtype(rows, i) ==
    IF \A r \in 1..Len(rows) : rows[r][i].t \in {"num", "nan", "inf"}
    THEN "num" ELSE "obj"

Table(columns, rows) ==
    [columns |-> columns,
     dtypes |-> [i \in 1..Len(columns) |-> InferDtype(rows, i)],
     rows |-> rows]

\* DataFrame.empty
empty(df) == Len(df.columns) = 0 \/ Len(df.rows) = 0

HasColumn(df, name) == \E i \in 1..Len(df.columns) : df.columns[i] = name

ColumnIndex(df, name) == CHOOSE i \in 1..Len(df.columns) : df.columns[i] = name

\* pd.api.types.is_numeric_dtype(df[col])
is_numeric_dtype(df, name) == df.dtypes[ColumnIndex(df, name)] = "num"

RemoveAt(seq, i) == SubSeq(seq, 1, i - 1) \o SubSeq(seq, i + 1, Len(seq))

\* df.drop(columns=[name])
DropColumn(df, name) ==
    LET i == ColumnIndex(df, name)
    IN [columns |-> RemoveAt(df.columns, i),
        dtypes |-> RemoveAt(df.dtypes, i),
        rows |-> [r \in 1..Len(df.rows) |-> RemoveAt(df.rows[r], i)]]

\* df[name] = values (numeric): in place when the column exists, appended as
\* the last column otherwise.
SetColumn(df, name, values) ==
    IF HasColumn(df, name)
    THEN LET i == ColumnIndex(df, name)
         IN [columns |-> df.columns,
             dtypes |-> [df.dtypes EXCEPT ![i] = "num"],
             rows |-> [r \in 1..Len(df.rows) |->
                          [df.rows[r] EXCEPT ![i] = values[r]]]]
    ELSE [columns |-> Append(df.columns, name),
          dtypes |-> Append(df.dtypes, "num"),
          rows |-> [r \in 1..Len(df.rows) |-> Append(df.rows[r], values[r])]]

\* x / d rounded to the nearest whole number, ties to even (numpy's round).
RoundHalfEven(x, d) ==
    LET a == IF x < 0 THEN -x ELSE x
        q == a \div d
        r == a % d
        m == IF 2 * r < d THEN q
             ELSE IF 2 * r > d THEN q + 1
             ELSE IF q % 2 = 0 THEN q ELSE q + 1
    IN IF x < 0 THEN -m ELSE m

\* (df[col] / d).round(2) on one cell
ConvertCell(cell, d) ==
    IF cell.t = "num" THEN Num(RoundHalfEven(cell.n, d))
    ELSE IF cell.t = "inf" THEN Inf
    ELSE NaN

(* processors/rvtools_processor.py: unit conversion, aggregation, merge.  *)

ID == "VM UUID"

\* The identity values of the model, in the order groupby() sorts them.
IdOrder == <<"u1", "u2">>

IdCell(df, r) == df.rows[r][ColumnIndex(df, ID)]

\* One conversion of _convert_units: the gigabyte column is written, then the
\* source column is dropped (also when both have the same name).
ConvertColumn(df, col, new_col, divisor) ==
    LET i == ColumnIndex(df, col)
        values == [r \in 1..Len(df.rows) |-> ConvertCell(df.rows[r][i], divisor)]
    IN DropColumn(SetColumn(df, new_col, values), col)

RECURSIVE ConvertMiB(_, _)
ConvertMiB(df, cols) ==
    IF cols = <<>> THEN df
    ELSE LET col == Head(cols)
             new_col == Replace(Replace(col, " MiB", " GB"), "MiB", "_GB")
         IN ConvertMiB(ConvertColumn(df, col, new_col, 1024), Tail(cols))

RECURSIVE ConvertMB(_, _)
ConvertMB(df, cols) ==
    IF cols = <<>> THEN df
    ELSE LET col == Head(cols)
             new_col == Replace(Replace(col, " MB", " GB"), "MB", "_GB")
         IN ConvertMB(ConvertColumn(df, col, new_col, 1000), Tail(cols))

IsMiBColumn(df, col) ==
    Contains("mib", Lower(col)) /\ is_numeric_dtype(df, col)

IsMBColumn(df, col) ==
    /\ Contains("mb", Lower(col))
    /\ ~Contains("mbps", Lower(col))
    /\ is_numeric_dtype(df, col)

\* RVToolsProcessor._convert_units
_convert_units(df) ==
    LET mib_cols == SelectSeq(df.columns, LAMBDA col : IsMiBColumn(df, col))
        df1 == ConvertMiB(df, mib_cols)
        mb_cols == SelectSeq(df1.columns, LAMBDA col : IsMBColumn(df1, col))
    IN ConvertMB(df1, mb_cols)

\* The rows of df whose identity is the string id, in read order.
GroupRows(df, id) ==
    SelectSeq(df.rows, LAMBDA row : row[ColumnIndex(df, ID)] = Str(id))

\* df['VM UUID'].value_counts(): missing identities are not counted.
value_count(df, id) == Len(GroupRows(df, id))

IdsOf(df) == {id \in {IdOrder[k] : k \in 1..Len(IdOrder)} : value_count(df, id) > 0}

\* vm_counts.max() == 1; the maximum of no counts is NaN, which is not 1.
MaxCountIsOne(df) ==
    /\ IdsOf(df) # {}
    /\ \A id \in IdsOf(df) : value_count(df, id) = 1

\* The groups of groupby('VM UUID'): the distinct identities, sorted; rows
\* whose identity is missing belong to no group.
GroupKeys(df) == SelectSeq(IdOrder, LAMBDA id : id \in IdsOf(df))

NonNull(cells) == SelectSeq(cells, notna)

RECURSIVE SumCells(_)
SumCells(cells) == IF cells = <<>> THEN 0 ELSE Head(cells).n + SumCells(Tail(cells))

HasInf(cells) == \E i \in 1..Len(cells) : cells[i].t = "inf"

\* 'sum': missing values count as 0.
AggSum(cells) ==
    IF HasInf(cells) THEN Inf ELSE Num(SumCells(NonNull(cells)))

\* 'mean' of the values present, missing when there are none; kept to the
\* nearest hundredth.
AggMean(cells) ==
    IF NonNull(cells) = <<>> THEN NaN
    ELSE IF HasInf(cells) THEN Inf
    ELSE Num(RoundHalfEven(SumCells(NonNull(cells)), Len(NonNull(cells))))

\* A plausible slip: the last value of the group.
AggFirst_Last(cells) ==
    IF NonNull(cells) = <<>> THEN NaN ELSE NonNull(cells)[Len(NonNull(cells))]

\* 'first': the first value of the group that is not missing.
AggFirst(cells) == IF NonNull(cells) = <<>> THEN NaN ELSE Head(NonNull(cells))

SizeWords == <<"size", "capacity", "mib", "gb", "mb">>

\* A plausible slip: every numeric column is averaged.
AggRule_Mean(df, col) == IF is_numeric_dtype(df, col) THEN "mean" ELSE "first"

\* agg_dict[col] of _aggregate_vm_data
AggRule(df, col) ==
    IF is_numeric_dtype(df, col)
    THEN IF \E k \in 1..Len(SizeWords) : Contains(SizeWords[k], Lower(col))
         THEN "sum" ELSE "mean"
    ELSE "first"

Reduce(rule, cells) ==
    IF rule = "sum" THEN AggSum(cells)
    ELSE IF rule = "mean" THEN AggMean(cells)
    ELSE AggFirst(cells)

\* df.groupby('VM UUID').agg(rules).reset_index(): the identity column first,
\* then the other columns in their order, one row per group; rules[i] is the
\* rule of column i.
GroupByAgg(df, rules) ==
    LET idx == ColumnIndex(df, ID)
        others == SelectSeq([i \in 1..Len(df.columns) |-> i], LAMBDA i : i # idx)
        keys == GroupKeys(df)
        cellsOf(id, i) ==
            LET g == GroupRows(df, id) IN [r \in 1..Len(g) |-> g[r][i]]
    IN [columns |-> <<ID>> \o [k \in 1..Len(others) |-> df.columns[others[k]]],
        dtypes |-> <<"obj">> \o
            [k \in 1..Len(others) |->
                IF rules[others[k]] = "first"
                THEN df.dtypes[others[k]] ELSE "num"],
        rows |-> [g \in 1..Len(keys) |->
            <<Str(keys[g])>> \o
            [k \in 1..Len(others) |->
                Reduce(rules[others[k]], cellsOf(keys[g], others[k]))]]]

\* RVToolsProcessor._aggregate_vm_data; `fails` says whether agg() raises.
_aggregate_vm_data(df, fails) ==
    IF ~HasColumn(df, ID) \/ empty(df) THEN df
    ELSE IF MaxCountIsOne(df) THEN _convert_units(df)
    ELSE IF ~fails
    THEN _convert_units(GroupByAgg(df,
            [i \in 1..Len(df.columns) |-> AggRule(df, df.columns[i])]))
    ELSE _convert_units(GroupByAgg(df, [i \in 1..Len(df.columns) |-> "first"]))

\* result_df.columns = [f"{key}_{col}" if col != 'VM UUID' else col ...]
Prefixed(df, key) ==
    [df EXCEPT !.columns =
        [i \in 1..Len(df.columns) |->
            IF df.columns[i] = ID THEN ID ELSE key \o "_" \o df.columns[i]]]

RECURSIVE Flatten(_)
Flatten(ss) == IF ss = <<>> THEN <<>> ELSE Head(ss) \o Flatten(Tail(ss))

\* left.merge(right, on='VM UUID', how='left'): every left row, in order,
\* once per right row with the same identity (missing matches missing), and
\* once with missing values when there is none.
LeftMerge(left, right) ==
    LET li == ColumnIndex(left, ID)
        ri == ColumnIndex(right, ID)
        blank == [k \in 1..(Len(right.columns) - 1) |-> NaN]
        joined(row) ==
            LET matches == SelectSeq(right.rows, LAMBDA rr : rr[ri] = row[li])
            IN IF matches = <<>> THEN <<row \o blank>>
               ELSE [m \in 1..Len(matches) |-> row \o RemoveAt(matches[m], ri)]
    IN [columns |-> left.columns \o RemoveAt(right.columns, ri),
        dtypes |-> left.dtypes \o RemoveAt(right.dtypes, ri),
        rows |-> Flatten([r \in 1..Len(left.rows) |-> joined(left.rows[r])])]

\* csv_data is the dict in insertion order: a sequence of [name, df].
Names(data) == [k \in 1..Len(data) |-> data[k].name]

HasKey(data, key) == \E k \in 1..Len(data) : data[k].name = key

Lookup(data, key) == data[CHOOSE k \in 1..Len(data) : data[k].name = key].df

\* base_key of _merge_vm_data
BaseKey(data) == IF HasKey(data, "cpu") THEN "cpu" ELSE data[1].name

RECURSIVE MergeOthers(_, _, _, _)
MergeOthers(result, data, base_key, fails) ==
    IF data = <<>> THEN result
    ELSE LET agg_df == _aggregate_vm_data(Head(data).df, fails)
         IN IF Head(data).name = base_key \/ empty(agg_df)
            THEN MergeOthers(result, Tail(data), base_key, fails)
            ELSE MergeOthers(LeftMerge(result, Prefixed(agg_df, Head(data).name)),
                             Tail(data), base_key, fails)

NoTable == [columns |-> <<>>, dtypes |-> <<>>, rows |-> <<>>]

\* A plausible slip: an empty mapping gives an empty table instead of the
\* error.
_merge_vm_data_Silent(data, fails) ==
    IF data = <<>> THEN [error |-> "", df |-> NoTable]
    ELSE [error |-> "",
          df |-> MergeOthers(
                    Prefixed(_aggregate_vm_data(Lookup(data, BaseKey(data)), fails),
                             BaseKey(data)),
                    data, BaseKey(data), fails)]

\* RVToolsProcessor._merge_vm_data: the ValueError it raises, or "" and the
\* merged table.
_merge_vm_data(data, fails) ==
    IF data = <<>> THEN [error |-> "No CSV data to merge", df |-> NoTable]
    ELSE LET base_key == BaseKey(data)
             result_df ==
                 Prefixed(_aggregate_vm_data(Lookup(data, base_key), fails),
                          base_key)
         IN [error |-> "", df |-> MergeOthers(result_df, data, base_key, fails)]

(* models/vm_models.py: detect_os_type, detect_power_state.               *)

UnixLike == <<"ubuntu", "centos", "oracle linux", "debian", "suse", "linux",
              "rhel", "unix", "aix", "solaris", "bsd">>

\* detect_os_type
detect_os_type(os_string) ==
    IF os_string = "" THEN OS_UNKNOWN
    ELSE LET os_lower == Lower(os_string)
         IN IF Contains("windows", os_lower) \/ Contains("microsoft", os_lower)
            THEN OS_WINDOWS
            ELSE IF \E k \in 1..Len(UnixLike) : Contains(UnixLike[k], os_lower)
            THEN OS_LINUX
            ELSE OS_OTHER

\* A plausible slip: off and stopped are tested before on and running.
detect_power_state_OffFirst(power_string) ==
    IF power_string = "" THEN UNKNOWN
    ELSE LET power_lower == Lower(power_string)
         IN IF Contains("off", power_lower) \/ Contains("stopped", power_lower)
            THEN POWERED_OFF
            ELSE IF Contains("on", power_lower) \/ Contains("running", power_lower)
            THEN POWERED_ON
            ELSE IF Contains("suspend", power_lower) THEN SUSPENDED
            ELSE UNKNOWN

\* detect_power_state
detect_power_state(power_string) ==
    IF power_string = "" THEN UNKNOWN
    ELSE LET power_lower == Lower(power_string)
         IN IF Contains("on", power_lower) \/ Contains("running", power_lower)
            THEN POWERED_ON
            ELSE IF Contains("off", power_lower) \/ Contains("stopped", power_lower)
            THEN POWERED_OFF
            ELSE IF Contains("suspend", power_lower) THEN SUSPENDED
            ELSE UNKNOWN

-----------------------------------------------------------------------------
(* processors/rvtools_processor.py: column mapping and the record builder. *)

Fields == {"vm_name", "os_config", "cpu", "memory", "disk_capacity",
           "annotation", "powerstate", "cluster", "host", "datacenter"}

\* column_map = {}: a field that is not mapped holds "", what
\* column_map.get(field, '') gives for it.
EmptyMap == [f \in Fields |-> ""]

\* One iteration of the loop of _map_columns: the first branch of the
\* if/elif chain whose field is still free and whose test the column passes.
MapColumn(column_map, col) ==
    LET l == Lower(col)
        free(f) == column_map[f] = ""
        set(f) == [column_map EXCEPT ![f] = col]
    IN IF free("vm_name") /\ Contains("vm", l)
             /\ (Contains("name", l) \/ EndsWith(l, "_vm"))
       THEN set("vm_name")
       ELSE IF free("os_config")
             /\ (Contains("os according", l)
                 \/ (Contains("tools", l) /\ Contains("os", l)))
       THEN set("os_config")
       ELSE IF free("cpu")
             /\ (Contains("cpus", l) \/ l = "info_cpus" \/ l = "cpu_cpus")
       THEN set("cpu")
       ELSE IF free("memory") /\ Contains("size", l) /\ Contains("gb", l)
             /\ Contains("memory", l)
       THEN set("memory")
       ELSE IF free("disk_capacity") /\ Contains("capacity", l)
             /\ Contains("gb", l)
             /\ (Contains("disk", l) \/ Contains("total", l))
       THEN set("disk_capacity")
       ELSE IF free("annotation") /\ Contains("annotation", l)
       THEN set("annotation")
       ELSE IF free("powerstate") /\ Contains("powerstate", l)
       THEN set("powerstate")
       ELSE IF free("cluster") /\ Contains("cluster", l)
       THEN set("cluster")
       ELSE IF free("host") /\ Contains("host", l) /\ Contains("name", l)
       THEN set("host")
       ELSE IF free("datacenter") /\ Contains("datacenter", l)
       THEN set("datacenter")
       ELSE column_map

RECURSIVE MapColumns(_, _)
MapColumns(column_map, cols) ==
    IF cols = <<>> THEN column_map
    ELSE MapColumns(MapColumn(column_map, Head(cols)), Tail(cols))

\* RVToolsProcessor._map_columns
_map_columns(df) == MapColumns(EmptyMap, df.columns)

\* row.get(col, default)
RowGet(df, row, col, default) ==
    IF HasColumn(df, col) THEN row[ColumnIndex(df, col)] ELSE default

\* str(float) of a number of hundredths: "4.0", "2.5", "0.25".
FloatRepr(n) ==
    LET a == IF n < 0 THEN -n ELSE n
        frac == a % Scale
    IN (IF n < 0 THEN "-" ELSE "") \o IntToDigits(a \div Scale) \o "." \o
       (IF frac % 10 = 0 THEN IntToDigits(frac \div 10)
        ELSE IntToDigits(frac \div 10) \o IntToDigits(frac % 10))

\* str(value) of a cell: a missing cell is the float nan.
PyStr(cell) ==
    IF cell.t = "nan" THEN "nan"
    ELSE IF cell.t = "num" THEN FloatRepr(cell.n)
    ELSE IF cell.t = "inf" THEN "inf"
    ELSE cell.s

AllDigits(text) ==
    /\ Len(text) > 0
    /\ \A i \in 1..Len(text) : IsDigit(SubSeq(text, i, i))

DotAt(text) == CHOOSE i \in 1..Len(text) : SubSeq(text, i, i) = "."

\* The numeral without its sign.
Unsigned(t) ==
    IF Len(t) > 0 /\ SubSeq(t, 1, 1) \in {"-", "+"} THEN SubSeq(t, 2, Len(t))
    ELSE t

\* float(value) of a string cell, for the texts the model's cells hold:
\* "4", "-4", "0.5" and "0.25" parse, with blanks around them; any other
\* text is a ValueError.
IsNumeral(text) ==
    LET t == Unsigned(Strip(text))
    IN IF Contains(".", t)
       THEN /\ AllDigits(SubSeq(t, 1, DotAt(t) - 1))
            /\ AllDigits(SubSeq(t, DotAt(t) + 1, Len(t)))
            /\ Len(t) - DotAt(t) <= 2
       ELSE AllDigits(t)

ParseNumeral(text) ==
    LET t == Unsigned(Strip(text))
        magnitude ==
            IF Contains(".", t)
            THEN LET frac == SubSeq(t, DotAt(t) + 1, Len(t))
                 IN Scale * DigitsToInt(SubSeq(t, 1, DotAt(t) - 1))
                    + (IF Len(frac) = 1 THEN 10 * DigitsToInt(frac)
                       ELSE DigitsToInt(frac))
            ELSE Scale * DigitsToInt(t)
    IN IF SubSeq(Strip(text), 1, 1) = "-" THEN -magnitude ELSE magnitude

\* The texts float() parses to an infinity, in any case and with blanks
\* around them.
InfinityTexts == {"inf", "+inf", "-inf", "infinity", "+infinity", "-infinity"}

IsInfinite(cell) ==
    \/ cell.t = "inf"
    \/ cell.t = "str" /\ Lower(Strip(cell.s)) \in InfinityTexts

\* float('inf'): larger than every number of the model.
Infinity == Pow2(30)

\* float(value), in hundredths; callers check that it does not raise.
ToFloat(cell) ==
    IF IsInfinite(cell) THEN Infinity
    ELSE IF cell.t = "num" THEN cell.n
    ELSE ParseNumeral(cell.s)

\* float(value) raises ValueError
FloatRaises(cell) ==
    cell.t = "str" /\ ~IsNumeral(cell.s) /\ ~IsInfinite(cell)

\* int(x) truncates toward zero.
Trunc(n) == IF n < 0 THEN -((-n) \div Scale) ELSE n \div Scale

\* int(float(value)) raises OverflowError, which _safe_int does not catch.
SafeIntRaises(value) == notna(value) /\ IsInfinite(value)

\* RVToolsProcessor._safe_int: a whole number, when it does not raise
_safe_int(value) ==
    IF ~notna(value) THEN 0
    ELSE IF FloatRaises(value) THEN 0
    ELSE Trunc(ToFloat(value))

\* RVToolsProcessor._safe_float: a number of hundredths
_safe_float(value) ==
    IF ~notna(value) THEN 0
    ELSE IF FloatRaises(value) THEN 0
    ELSE ToFloat(value)

\* The record a row is built into; memory_gb and the capacities of storage
\* are in hundredths of a GB, and None is "".
VMSpec(vm_id, vm_name, cpu_cores, memory_gb, os_string, power_string, storage) ==
    [vm_id |-> vm_id, vm_name |-> vm_name, cpu_cores |-> cpu_cores,
     memory_gb |-> memory_gb, storage |-> storage,
     os_type |-> detect_os_type(os_string), os_config |-> Strip(os_string),
     power_state |-> detect_power_state(power_string),
     source_format |-> "RVTools"]

\* A plausible slip: the test asks for None, which the safe conversions never
\* return.
IsZeroResource_NoneTest(cpu_cores, memory_gb) == FALSE

\* cpu_cores == 0 and memory_gb == 0
IsZeroResource(cpu_cores, memory_gb) == cpu_cores = 0 /\ memory_gb = 0

\* not vm_name or not vm_id
LacksIdentity(vm_id, vm_name) == vm_name = "" \/ vm_id = ""

\* RVToolsProcessor._create_vm_spec_from_row: <<>> for None, else the record.
\* The OverflowError of _safe_int leaves it; _convert_to_vm_specs catches it
\* and goes on with the next row, so that row gives <<>> as well.
_create_vm_spec_from_row(df, row, column_map) ==
    LET get(col, default) == RowGet(df, row, col, default)
        vm_id == PyStr(get(ID, Str("")))
        vm_name == Strip(PyStr(get(column_map["vm_name"], Str(""))))
        cpu_cores == _safe_int(get(column_map["cpu"], Num(0)))
        memory_gb == _safe_float(get(column_map["memory"], Num(0)))
        disk_capacity == _safe_float(get(column_map["disk_capacity"], Num(0)))
    IN IF LacksIdentity(vm_id, vm_name) THEN <<>>
       ELSE IF SafeIntRaises(get(column_map["cpu"], Num(0))) THEN <<>>
       ELSE IF IsZeroResource(cpu_cores, memory_gb) THEN <<>>
       ELSE <<VMSpec(vm_id, vm_name, cpu_cores, memory_gb,
                     PyStr(get(column_map["os_config"], Str(""))),
                     PyStr(get(column_map["powerstate"], Str("poweredOn"))),
                     IF disk_capacity > 0 THEN <<disk_capacity>> ELSE <<>>)>>

\* RVToolsProcessor._convert_to_vm_specs
_convert_to_vm_specs(df) ==
    IF empty(df) THEN <<>>
    ELSE LET column_map == _map_columns(df)
         IN Flatten([r \in 1..Len(df.rows) |->
                        _create_vm_spec_from_row(df, df.rows[r], column_map)])

(* RVToolsProcessor.extract_vm_data, and the archives it is run on.       *)

MaxRows == 2           \* rows of one dataset of the archive

\* The text read_csv found in a numeric cell that shares its column with
\* text: "4", "0.5".
NumberText(n) ==
    IF n % Scale # 0 THEN FloatRepr(n)
    ELSE IF n < 0 THEN "-" \o IntToDigits((-n) \div Scale)
    ELSE IntToDigits(n \div Scale)

\* pd.read_csv: a column with a cell that is no number is an object column,
\* and its numbers stay the strings they were read from.
ReadCsv(columns, rows) ==
    LET asRead(r, i) ==
            IF InferDtype(rows, i) = "obj" /\ rows[r][i].t = "num"
            THEN Str(NumberText(rows[r][i].n))
            ELSE IF InferDtype(rows, i) = "obj" /\ rows[r][i].t = "inf"
            THEN Str("inf")
            ELSE rows[r][i]
    IN Table(columns,
             [r \in 1..Len(rows) |-> [i \in 1..Len(columns) |-> asRead(r, i)]])

SeqsUpTo(S, n) == UNION {[1..k -> S] : k \in 1..n}

IdCells == {Str("u1"), Str("u2"), NaN}

\* tabvCPU: VM, CPUs, VM UUID
CpuRows ==
    {<<Str("web"), cpus, id>> : cpus \in {Num(400), Num(0)}, id \in IdCells}
    \cup {<<Str("web"), NaN, Str("u1")>>, <<Str("web"), Str("bad"), Str("u1")>>,
          <<Str("web"), Num(50), Str("u1")>>, <<Str(" "), Num(400), Str("u1")>>,
          <<NaN, Num(400), Str("u1")>>, <<NaN, Num(400), NaN>>,
          <<Str("web"), Inf, Str("u1")>>}

CpuTables == {ReadCsv(<<"VM", "CPUs", ID>>, rows) : rows \in SeqsUpTo(CpuRows, MaxRows)}

\* a tabvCPU export without the VM column
CpuTablesNoName ==
    {ReadCsv(<<"CPUs", ID>>, rows) :
        rows \in SeqsUpTo({<<cpus, id>> : cpus \in {Num(400), Num(0)},
                                          id \in IdCells}, MaxRows)}

\* the cpu datasets the other datasets are merged onto
BaseTables ==
    {ReadCsv(<<"VM", "CPUs", ID>>, rows) : rows \in
        {<< <<Str("web"), Num(400), Str("u1")>> >>,
         << <<Str("web"), Num(400), Str("u1")>>, <<Str("db"), Num(200), Str("u2")>> >>,
         << <<Str("web"), Num(400), Str("u1")>>, <<Str("web"), Num(200), Str("u1")>> >>,
         << <<Str("web"), Num(400), Str("u1")>>, <<Str("db"), Num(200), NaN>> >>,
         << <<Str("web"), Num(0), Str("u1")>> >>}}

\* tabvMemory: VM, Size MiB, VM UUID
MemoryTables ==
    {ReadCsv(<<"VM", "Size MiB", ID>>, rows) :
        rows \in SeqsUpTo({<<Str("web"), size, id>> :
                              size \in {Num(409600), Num(0)}, id \in IdCells},
                          MaxRows)}

\* tabvDisk: VM, Capacity MiB, VM UUID
DiskTables ==
    {ReadCsv(<<"VM", "Capacity MiB", ID>>, rows) :
        rows \in SeqsUpTo({<<Str("web"), capacity, id>> :
                              capacity \in {Num(5120000), Num(2048000)},
                              id \in IdCells}
                          \cup {<<Str("web"), NaN, Str("u1")>>},
                          MaxRows)}

\* The Powerstate and OS cells of the tabvInfo datasets.
PowerCells ==
    {Str("poweredOn"), Str("poweredOff"), Str("suspended"), Str("Running"),
     Str("off, connection lost"), Str("standby"), NaN}

OsCells ==
    {Str("Windows Server 2019 Standard"), Str("Red Hat Enterprise Linux 8"),
     Str("Windows Subsystem for Linux"), Str("SOLARIS 11"),
     Str("Other (32-bit)"), NaN}

OsColumn == "OS according to the configuration file"

\* tabvInfo: VM, Powerstate, OS according to the configuration file, VM UUID;
\* one row, for the VM of the cpu dataset or for another one.
InfoTables ==
    {ReadCsv(<<"VM", "Powerstate", OsColumn, ID>>, <<row>>) : row \in
        {<<Str("web"), power, Str("Red Hat Enterprise Linux 8"), id>> :
            power \in PowerCells, id \in {Str("u1"), Str("u2")}}
        \cup {<<Str("web"), Str("poweredOn"), os, id>> :
            os \in OsCells, id \in {Str("u1"), Str("u2")}}}

Dataset(name, df) == [name |-> name, df |-> df]

\* Archives of one VM whose CPU count, memory size and disk capacity are each
\* written with or without a minus sign: 4 CPUs, 4096 MiB, 51200 MiB.
SignedArchives ==
    {<<Dataset("cpu", ReadCsv(<<"VM", "CPUs", ID>>,
                              << <<Str("web"), Num(cpus), Str("u1")>> >>)),
       Dataset("memory", ReadCsv(<<"VM", "Size MiB", ID>>,
                                 << <<Str("web"), Num(size), Str("u1")>> >>)),
       Dataset("disk", ReadCsv(<<"VM", "Capacity MiB", ID>>,
                               << <<Str("web"), Num(capacity), Str("u1")>> >>))>> :
        cpus \in {400, -400}, size \in {409600, -409600},
        capacity \in {5120000, -5120000}}

\* What _read_csv_files can return: every dataset has the VM UUID column and
\* at least one row; the order is the order the files were found in.
CsvInputs ==
    {<<>>}
    \cup {<<Dataset("cpu", c)>> : c \in CpuTables \cup CpuTablesNoName}
    \cup {<<Dataset("disk", d)>> : d \in DiskTables}
    \cup {<<Dataset("cpu", c), Dataset("disk", d)>> :
            c \in BaseTables, d \in DiskTables}
    \cup {<<Dataset("disk", d), Dataset("cpu", c)>> :
            c \in {ReadCsv(<<"VM", "CPUs", ID>>,
                           << <<Str("web"), Num(400), Str("u1")>> >>)},
            d \in DiskTables}
    \cup {<<Dataset("cpu", c), Dataset("info", i)>> :
            c \in {ReadCsv(<<"VM", "CPUs", ID>>,
                           << <<Str("web"), Num(400), Str("u1")>> >>)},
            i \in InfoTables}
    \cup {<<Dataset("cpu", c), Dataset("memory", m)>> :
            c \in BaseTables, m \in MemoryTables}
    \cup SignedArchives
    \cup {<<Dataset("memory", m), Dataset("disk", d)>> :
            m \in MemoryTables,
            d \in {ReadCsv(<<"VM", "Capacity MiB", ID>>,
                           << <<Str("web"), Num(5120000), Str("u1")>>,
                              <<Str("web"), Num(2048000), Str("u1")>> >>)}}

PipeInit ==
    /\ csv_data = <<>>
    /\ agg_fails = FALSE
    /\ aggregated = <<>>
    /\ merged_data = NoTable
    /\ vm_specs = <<>>
    /\ column_mapping = EmptyMap
    /\ extract_pc = "start"

PipeIdle == PipeInit

\* extract_vm_data, lines 61-72: a new assessment, and the datasets found in
\* the archive.
ReadCsvFiles ==
    /\ extract_pc = "start"
    /\ csv_data' \in CsvInputs
    /\ extract_pc' = "read"
    /\ UNCHANGED <<agg_fails, aggregated, merged_data, vm_specs, column_mapping>>
    /\ UNCHANGED <<calcVars, assessVars, bomVars, sessionVars>>

\* Whether _aggregate_vm_data groups the dataset.
Grouped(df) == HasColumn(df, ID) /\ ~empty(df) /\ ~MaxCountIsOne(df)

\* extract_vm_data, line 75: every dataset is aggregated and merged onto the
\* base; the ValueError of _merge_vm_data leaves extract_vm_data with it.
MergeVmData ==
    /\ extract_pc = "read"
    /\ \E fails \in BOOLEAN :
          LET r == _merge_vm_data(csv_data, fails)
          IN IF r.error # ""
             THEN /\ extract_pc' = "raised"
                  /\ UNCHANGED <<agg_fails, aggregated, merged_data>>
             ELSE /\ agg_fails' =
                       (fails /\ \E k \in 1..Len(csv_data) :
                                    Grouped(csv_data[k].df))
                  /\ aggregated' =
                       [k \in 1..Len(csv_data) |->
                           _aggregate_vm_data(csv_data[k].df, fails)]
                  /\ merged_data' = r.df
                  /\ extract_pc' = "merged"
    /\ UNCHANGED <<csv_data, vm_specs, column_mapping>>
    /\ UNCHANGED <<calcVars, assessVars, bomVars, sessionVars>>

\* extract_vm_data, line 78
ConvertToVmSpecs ==
    /\ extract_pc = "merged"
    /\ vm_specs' = _convert_to_vm_specs(merged_data)
    /\ column_mapping' = IF empty(merged_data) THEN column_mapping
                         ELSE _map_columns(merged_data)
    /\ extract_pc' = "converted"
    /\ UNCHANGED <<csv_data, agg_fails, aggregated, merged_data>>
    /\ UNCHANGED <<calcVars, assessVars, bomVars, sessionVars>>

\* extract_vm_data, lines 80-83: add_vm for every record, then return.
AddVms ==
    /\ extract_pc = "converted"
    /\ vms' = vms \o [i \in 1..Len(vm_specs) |->
                        [vm_specs[i] EXCEPT !.source_format = source_format]]
    /\ total_vms' = Len(vms')
    /\ powered_on_vms' = CountPoweredOn(vms')
    /\ extract_pc' = "returned"
    /\ UNCHANGED <<source_format, metadata, assess_pc>>
    /\ UNCHANGED <<csv_data, agg_fails, aggregated, merged_data, vm_specs,
                   column_mapping>>
    /\ UNCHANGED <<calcVars, bomVars, sessionVars>>

\* The record as the calculator reads it, in whole GB; the archives of the
\* model hold whole numbers of GB.
InGB(v) ==
    [v EXCEPT !.memory_gb = v.memory_gb \div Scale,
              !.storage = [i \in 1..Len(v.storage) |-> v.storage[i] \div Scale]]

\* A plausible slip: the unit price is passed for the total cost.
BOMLineItem_UnitPrice(v, cost_item, cur) ==
    [vm_id |-> v.vm_id, vm_name |-> v.vm_name, os_type |-> v.os_type,
     component_type |-> cost_item.component_type,
     quantity |-> cost_item.quantity, unit |-> cost_item.unit,
     unit_price |-> cost_item.unit_price,
     total_cost |-> cost_item.unit_price, currency |-> cur,
     pricing_model |-> cost_item.pricing_model]

\* BOMLineItem(...) of calculate_assessment_cost, as add_line_item leaves it
BOMLineItem(v, cost_item, cur) ==
    [vm_id |-> v.vm_id, vm_name |-> v.vm_name, os_type |-> v.os_type,
     component_type |-> cost_item.component_type,
     quantity |-> cost_item.quantity, unit |-> cost_item.unit,
     unit_price |-> cost_item.unit_price,
     total_cost |-> cost_item.total_cost, currency |-> cur,
     pricing_model |-> cost_item.pricing_model]

\* CloudPricingCalculator.calculate_assessment_cost: the line items of the bill,
\* or the exception of calculate_vm_cost.
RECURSIVE calculate_assessment_cost(_, _, _, _, _)
calculate_assessment_cost(cfg, hours, cur, list, include_powered_off) ==
    IF list = <<>> THEN [raised |-> FALSE, items |-> <<>>]
    ELSE LET v == Head(list)
             rest == calculate_assessment_cost(cfg, hours, cur, Tail(list),
                                               include_powered_off)
             vm_costs == calculate_vm_cost(cfg, hours, InGB(v))
         IN IF ~is_powered_on(v) /\ ~include_powered_off THEN rest
            ELSE IF vm_costs.raised \/ rest.raised
            THEN [raised |-> TRUE, items |-> <<>>]
            ELSE [raised |-> FALSE,
                  items |-> [i \in 1..Len(vm_costs.items) |->
                                BOMLineItem(v, vm_costs.items[i], cur)]
                            \o rest.items]

\* app.py process_vm_assessment, lines 246-248: the calculator is built from
\* the rate card and prices the assessment extract_vm_data returned; the
\* metadata of that assessment has no include_powered_off.
PriceAssessment ==
    /\ extract_pc = "returned"
    /\ calc_pc = "new"
    /\ IF config_file.kind = "array"
       THEN /\ calc_pc' = "init_raised"
            /\ extract_pc' = "raised"
            /\ UNCHANGED <<pricing_config, hours_per_month, currency, bomVars>>
       ELSE LET cfg == _load_pricing_config(config_file)
                meta == Get(cfg, "pricing_metadata", <<>>)
                hours == Get(meta, "hours_per_month", DefaultHoursPerMonth)
                cur == Get(meta, "currency", "EUR")
                bom == calculate_assessment_cost(cfg, hours, cur, vms,
                          Get(metadata, "include_powered_off", FALSE))
            IN /\ pricing_config' = cfg
               /\ hours_per_month' = hours
               /\ currency' = cur
               /\ calc_pc' = IF bom.raised THEN "raised" ELSE "ready"
               /\ extract_pc' = IF bom.raised THEN "raised" ELSE "priced"
               /\ line_items' = bom.items
               /\ bom_currency' = cur
               /\ pricing_source' = provider_name
    /\ UNCHANGED <<config_file, vm, ocpu_count, cost_items>>
    /\ UNCHANGED <<assessVars, csv_data, agg_fails, aggregated, merged_data,
                   vm_specs, column_mapping, sessionVars>>

-----------------------------------------------------------------------------
(* RVToolsProcessor._convert_units on one dataset.                         *)

UnitHeaders ==
    {"Size MiB", "Capacity MiB", "Size MB", "Speed Mbps", "size mib", "Number"}

\* 1024, 1000, 1500, 128 and 0.5 of the unit, a missing cell and a text cell
UnitCells ==
    {Num(102400), Num(100000), Num(150000), Num(12800), Num(50), NaN, Str("n/a")}

\* Datasets of one row with the identity and one or two other columns.
UnitTables ==
    {ReadCsv(<<ID, h>>, << <<Str("u1"), c>> >>) :
        h \in UnitHeaders, c \in UnitCells}
    \cup {ReadCsv(<<h1, ID, h2>>, << <<c1, Str("u1"), c2>> >>) :
        <<h1, h2>> \in {p \in UnitHeaders \X UnitHeaders : p[1] # p[2]},
        <<c1, c2>> \in {Num(102400), Num(100000), Str("n/a")}
                       \X {Num(150000), NaN}}

UnitsInit ==
    /\ csv_data \in {<<Dataset("disk", t)>> : t \in UnitTables}
    /\ agg_fails = FALSE
    /\ aggregated = <<>>
    /\ merged_data = NoTable
    /\ vm_specs = <<>>
    /\ column_mapping = EmptyMap
    /\ extract_pc = "read"

\* _convert_units(df) on the dataset
ConvertUnits ==
    /\ extract_pc = "read"
    /\ aggregated' = <<_convert_units(csv_data[1].df)>>
    /\ extract_pc' = "normalized"
    /\ UNCHANGED <<csv_data, agg_fails, merged_data, vm_specs, column_mapping>>
    /\ UNCHANGED <<calcVars, assessVars, bomVars, sessionVars>>

-----------------------------------------------------------------------------
(* CloudPricingCalculator.calculate_assessment_cost on an assessment.      *)

\* The VMs of the assessments that are priced, as the builder leaves them
\* (memory and capacities in hundredths of a GB).
BilledVM(id, name, cores, memory, storage, os, power) ==
    [vm_id |-> id, vm_name |-> name, cpu_cores |-> cores, memory_gb |-> memory,
     storage |-> storage, os_type |-> os, os_config |-> "",
     power_state |-> power, source_format |-> "RVTools"]

BilledVMs ==
    {BilledVM("u1", "web", 4, 400, <<5000, 2000>>, OS_WINDOWS, POWERED_ON),
     BilledVM("u2", "db", 2, 0, <<>>, OS_LINUX, POWERED_ON),
     BilledVM("u3", "old", 4, 400, <<5000>>, OS_WINDOWS, POWERED_OFF),
     BilledVM("u4", "ram", 0, 400, <<>>, OS_WINDOWS, POWERED_ON),
     BilledVM("u5", "nap", 2, 400, <<>>, OS_LINUX, SUSPENDED)}

\* The rate card files of the priced runs: no file, a file json.load
\* rejects, a JSON array, a full rate card in EUR and in USD, a rate card
\* without pricing_metadata and one without compute_pricing.
BillConfigFiles ==
    {f \in ConfigFiles :
        \/ f.kind # "object"
        \/ f.sections = Sections
        \/ f.currency = "USD" /\ f.sections = Sections \ {"pricing_metadata"}
        \/ f.currency = "EUR" /\ f.sections = Sections \ {"compute_pricing"}}

BillInit ==
    /\ config_file \in BillConfigFiles
    /\ pricing_config = <<>>
    /\ hours_per_month = 0
    /\ currency = ""
    /\ vm = NoVM
    /\ ocpu_count = 0
    /\ cost_items = <<>>
    /\ calc_pc = "new"
    /\ vms \in SeqsUpTo(BilledVMs, MaxVms) \cup {<<>>}
    /\ total_vms = Len(vms)
    /\ powered_on_vms = CountPoweredOn(vms)
    /\ source_format = "RVTools"
    /\ metadata \in {<<>>} \cup [{"include_powered_off"} -> BOOLEAN]
    /\ assess_pc = "built"

\* calculate_assessment_cost on the constructed calculator: a new bill with
\* the calculator's currency and provider name, then the line items; an
\* exception of calculate_vm_cost leaves the call with no bill.
CalculateAssessmentCost ==
    /\ calc_pc = "ready"
    /\ LET bom == calculate_assessment_cost(
                      pricing_config, hours_per_month, currency, vms,
                      Get(metadata, "include_powered_off", FALSE))
       IN IF bom.raised
          THEN /\ calc_pc' = "raised"
               /\ UNCHANGED bomVars
          ELSE /\ calc_pc' = "billed"
               /\ line_items' = bom.items
               /\ bom_currency' = currency
               /\ pricing_source' = provider_name
    /\ UNCHANGED <<config_file, pricing_config, hours_per_month, currency, vm,
                   ocpu_count, cost_items>>
    /\ UNCHANGED <<assessVars, pipeVars, sessionVars>>

\* The line items a caller adds to the returned bill, each with a currency
\* of its own.
BillExtras ==
    {[vm_id |-> "u9", vm_name |-> "extra", os_type |-> OS_LINUX,
      component_type |-> "Compute", quantity |-> 1, unit |-> "OCPU",
      unit_price |-> 1, total_cost |-> 1, currency |-> c,
      pricing_model |-> "on-demand"] : c \in {"EUR", "USD", "GBP"}}

\* A plausible slip: the item is appended with the currency it came with.
AddToBill_Unstamped ==
    /\ calc_pc = "billed"
    /\ \E item \in BillExtras : line_items' = Append(line_items, item)
    /\ calc_pc' = "amended"
    /\ UNCHANGED <<bom_currency, pricing_source>>
    /\ UNCHANGED <<config_file, pricing_config, hours_per_month, currency, vm,
                   ocpu_count, cost_items>>
    /\ UNCHANGED <<assessVars, pipeVars, sessionVars>>

\* BillOfMaterials.add_line_item on the bill calculate_assessment_cost
\* returned.
AddToBill ==
    /\ calc_pc = "billed"
    /\ \E item \in BillExtras :
          line_items' = Append(line_items, [item EXCEPT !.currency = bom_currency])
    /\ calc_pc' = "amended"
    /\ UNCHANGED <<bom_currency, pricing_source>>
    /\ UNCHANGED <<config_file, pricing_config, hours_per_month, currency, vm,
                   ocpu_count, cost_items>>
    /\ UNCHANGED <<assessVars, pipeVars, sessionVars>>

-----------------------------------------------------------------------------
(* VMSpec.add_storage on the record built from an archive.                 *)

\* The Capacity MiB cells of the disk rows: 50 GB, 0.25 GB, 5 MiB, nothing,
\* a negative capacity, a missing cell and a text.
CapacityCells ==
    {Num(5120000), Num(25600), Num(500), Num(0), Num(-5120000), NaN, Str("n/a")}

\* Archives of one VM with 4 CPUs and one or two disk rows.
StorageArchives ==
    {<<Dataset("cpu", ReadCsv(<<"VM", "CPUs", ID>>,
                              << <<Str("web"), Num(400), Str("u1")>> >>)),
       Dataset("disk", ReadCsv(<<"VM", "Capacity MiB", ID>>, rows))>> :
        rows \in SeqsUpTo({<<Str("web"), c, Str("u1")>> : c \in CapacityCells}, 2)}

StorageInit ==
    /\ csv_data \in StorageArchives
    /\ agg_fails = FALSE
    /\ aggregated = <<>>
    /\ merged_data = NoTable
    /\ vm_specs = <<>>
    /\ column_mapping = EmptyMap
    /\ extract_pc = "read"

\* The capacities add_storage is called with, in hundredths of a GB.
AddedCapacities == {2000, 5000, 0}

\* VMSpec.add_storage on a record the builder returned: an extent with the
\* capacity is appended.
add_storage ==
    /\ extract_pc \in {"converted", "extended"}
    /\ \E i \in 1..Len(vm_specs) :
          /\ Len(vm_specs[i].storage) < MaxExtents
          /\ \E capacity_gb \in AddedCapacities :
                vm_specs' = [vm_specs EXCEPT
                                ![i].storage = Append(@, capacity_gb)]
    /\ extract_pc' = "extended"
    /\ UNCHANGED <<csv_data, agg_fails, aggregated, merged_data, column_mapping>>
    /\ UNCHANGED <<calcVars, assessVars, bomVars, sessionVars>>

-----------------------------------------------------------------------------
(* RVToolsProcessor._map_columns on a header row.                          *)

\* Column names of merged tables: the dataset's name, "_", and the header
\* of the export.
HeaderNames ==
    {"cpu_VM", "cpu_CPUs", "info_OS according to the configuration file",
     "tools_Host Name", "info_Host Name", "info_VM Host Name",
     "memory_Size GB", "disk_Capacity GB", "info_Powerstate"}

\* Merged tables of one row with up to MaxColumns columns.
HeaderTables ==
    {Table(columns, << [i \in 1..Len(columns) |-> Str("4")] >>) :
        columns \in SeqsUpTo(HeaderNames, MaxColumns)}

MapperInit ==
    /\ csv_data = <<>>
    /\ agg_fails = FALSE
    /\ aggregated = <<>>
    /\ merged_data \in HeaderTables
    /\ vm_specs = <<>>
    /\ column_mapping = EmptyMap
    /\ extract_pc = "merged"

-----------------------------------------------------------------------------
(* The web layer: processing sessions (app.py).                            *)
(*                                                                         *)
(* upload_file stores a ProcessingSession under a fresh id and queues      *)
(* process_vm_assessment for it as a background task.  The task is cut     *)
(* into steps where it hands control to a collaborator (the imports, the   *)
(* processor, the pricing calculator, the file system, the report          *)
(* generator); the assignments between two such calls, and the except      *)
(* branch of a call that raises, belong to the step of that call.  Steps   *)
(* of different sessions interleave freely.  Session expiry                *)
(* (cleanup_old_sessions) removes whole sessions a day after their         *)
(* creation and is not modelled.                                           *)

MaxSessions == 2        \* sessions the process holds at once

SessionIds == 1..MaxSessions

None == "None"

\* What an uploaded file is to the steps of the task: whether the factory
\* has a processor for it and extract_vm_data returns, and whether
\* calculate_assessment_cost returns (extract_pc = "priced" in
\* SpecPipeline) or raises.
UploadedFiles ==
    { [name |-> "export.zip", extension |-> ".zip",
       extraction |-> "returns", pricing |-> "returns"],
      [name |-> "unpriced.zip", extension |-> ".zip",
       extraction |-> "returns", pricing |-> "raises"],
      [name |-> "broken.zip", extension |-> ".zip",
       extraction |-> "raises", pricing |-> "returns"],
      [name |-> "export.xlsx", extension |-> ".xlsx",
       extraction |-> "raises", pricing |-> "returns"],
      [name |-> "notes.txt", extension |-> ".txt",
       extraction |-> "raises", pricing |-> "returns"] }

allowed_extensions == {".zip", ".xls", ".xlsx"}

\* ProcessingSession.__init__, with the locals of the session's task:
\* file_path, the arguments generate_all_reports was called with, and the
\* position of the task.
ProcessingSession(file) ==
    [status |-> "pending", progress |-> 0,
     message |-> "Waiting to start...",
     output_dir |-> None, files |-> <<>>, error |-> None,
     file_path |-> file, report_args |-> <<>>, pc |-> "queued"]

SessionInit ==
    /\ processing_sessions = [s \in {} |-> ProcessingSession("")]
    /\ response = [status |-> None, progress |-> 0, message |-> None,
                   files |-> <<>>, error |-> None]

SessionIdle == SessionInit

\* The except branch of process_vm_assessment, str(e) given.
Failed_KeepsProgress(session, e) ==
    [session EXCEPT !.status = "error", !.error = e,
                    !.message = "Error: " \o e, !.pc = "done"]

Failed(session, e) ==
    [session EXCEPT !.status = "error", !.error = e,
                    !.message = "Error: " \o e, !.progress = 0,
                    !.pc = "done"]

\* The parameters of generate_all_reports after self.
RequiredParameters == <<"bom", "assessment">>
OptionalParameters == <<"source_filename">>

\* The arguments of the call in process_vm_assessment.
ReportCall == <<"bom">>

MissingArgument ==
    "generate_all_reports() missing 1 required positional argument"

\* generate_all_reports called with positional arguments args, in a build
\* where EXCEL_AVAILABLE is excel: the call raises TypeError unless every
\* required parameter is bound, and returns the files dict otherwise.
generate_all_reports(args, excel) ==
    IF \/ Len(args) < Len(RequiredParameters)
       \/ Len(args) > Len(RequiredParameters) + Len(OptionalParameters)
    THEN [raised |-> TRUE, error |-> MissingArgument, files |-> <<>>]
    ELSE [raised |-> FALSE, error |-> None,
          files |-> (IF excel THEN <<"BOM_Report.xlsx">> ELSE <<>>)
                    \o <<"BOM_Report.txt", "BOM_Data.csv">>]

Store(s, session) ==
    [t \in DOMAIN processing_sessions \cup {s} |->
        IF t = s THEN session ELSE processing_sessions[t]]

At(s, pc) == s \in DOMAIN processing_sessions /\ processing_sessions[s].pc = pc

\* upload_file: the file passes validation, the session is stored under a
\* fresh uuid and the task is queued.
upload_file(s, file) ==
    /\ file.extension \in allowed_extensions
    /\ s \notin DOMAIN processing_sessions
    /\ processing_sessions' = Store(s, ProcessingSession(file))
    /\ UNCHANGED response
    /\ UNCHANGED <<calcVars, assessVars, bomVars, pipeVars>>

\* get_status, for a session that exists.
get_status(s) ==
    /\ s \in DOMAIN processing_sessions
    /\ LET session == processing_sessions[s]
       IN response' = [status |-> session.status,
                       progress |-> session.progress,
                       message |-> session.message,
                       files |-> session.files,
                       error |-> session.error]
    /\ UNCHANGED processing_sessions
    /\ UNCHANGED <<calcVars, assessVars, bomVars, pipeVars>>

\* process_vm_assessment up to the imports.
StartProcessing(s) ==
    /\ At(s, "queued")
    /\ processing_sessions' = Store(s,
          [processing_sessions[s] EXCEPT
              !.status = "processing",
              !.message = "Starting VM assessment...",
              !.progress = 10, !.pc = "started"])
    /\ UNCHANGED response
    /\ UNCHANGED <<calcVars, assessVars, bomVars, pipeVars>>

\* The imports, which succeed: app.py has imported the same modules.
ImportModules(s) ==
    /\ At(s, "started")
    /\ processing_sessions' = Store(s,
          [processing_sessions[s] EXCEPT
              !.message = "Processing VM data...",
              !.progress = 30, !.pc = "imported"])
    /\ UNCHANGED response
    /\ UNCHANGED <<calcVars, assessVars, bomVars, pipeVars>>

\* create_processor and extract_vm_data.
ExtractVmData(s) ==
    /\ At(s, "imported")
    /\ LET session == processing_sessions[s]
       IN processing_sessions' = Store(s,
             IF session.file_path.extraction = "raises"
             THEN Failed(session, "extraction failed")
             ELSE [session EXCEPT !.progress = 50, !.pc = "extracted"])
    /\ UNCHANGED response
    /\ UNCHANGED <<calcVars, assessVars, bomVars, pipeVars>>

\* The pricing calculator is built and prices the assessment.
CalculatePricing(s) ==
    /\ At(s, "extracted")
    /\ LET session == processing_sessions[s]
       IN processing_sessions' = Store(s,
             IF session.file_path.pricing = "raises"
             THEN Failed([session EXCEPT
                             !.message = "Calculating pricing..."],
                         "pricing failed")
             ELSE [session EXCEPT !.message = "Calculating pricing...",
                                  !.progress = 70, !.pc = "priced"])
    /\ UNCHANGED response
    /\ UNCHANGED <<calcVars, assessVars, bomVars, pipeVars>>

\* The output directory is made.
CreateOutputDir(s) ==
    /\ At(s, "priced")
    /\ processing_sessions' = Store(s,
          [processing_sessions[s] EXCEPT
              !.output_dir = "reports",
              !.message = "Generating reports...",
              !.progress = 80, !.pc = "prepared"])
    /\ UNCHANGED response
    /\ UNCHANGED <<calcVars, assessVars, bomVars, pipeVars>>

\* The report generator is built and called, and the task ends.
GenerateReports(s) ==
    /\ At(s, "prepared")
    /\ \E excel \in BOOLEAN :
          LET session == [processing_sessions[s] EXCEPT
                             !.report_args = ReportCall]
              generated_files == generate_all_reports(ReportCall, excel)
          IN processing_sessions' = Store(s,
                IF generated_files.raised
                THEN Failed(session, generated_files.error)
                ELSE [session EXCEPT
                         !.files = generated_files.files,
                         !.progress = 100,
                         !.status = "completed",
                         !.message = "Successfully generated reports",
                         !.pc = "done"])
    /\ UNCHANGED response
    /\ UNCHANGED <<calcVars, assessVars, bomVars, pipeVars>>

process_vm_assessment(s) ==
    \/ StartProcessing(s)
    \/ ImportModules(s)
    \/ ExtractVmData(s)
    \/ CalculatePricing(s)
    \/ CreateOutputDir(s)
    \/ GenerateReports(s)

-----------------------------------------------------------------------------
(* The specifications.                                                     *)

Init == CalcInit /\ AssessIdle /\ BomIdle /\ PipeIdle /\ SessionIdle
Next == Construct \/ CalculateVmCost
Spec == Init /\ [][Next]_vars

InitAssessment == CalcIdle /\ AssessInit /\ BomIdle /\ PipeIdle /\ SessionIdle
NextAssessment == add_vm \/ process
SpecAssessment == InitAssessment /\ [][NextAssessment]_vars

InitBOM == CalcIdle /\ AssessIdle /\ BomInit /\ PipeIdle /\ SessionIdle
NextBOM == add_line_item
SpecBOM == InitBOM /\ [][NextBOM]_vars

InitBill == BillInit /\ BomIdle /\ PipeIdle /\ SessionIdle
NextBill == Construct \/ CalculateAssessmentCost \/ AddToBill
SpecBill == InitBill /\ [][NextBill]_vars

InitUnits == CalcIdle /\ AssessIdle /\ BomIdle /\ UnitsInit /\ SessionIdle
NextUnits == ConvertUnits
SpecUnits == InitUnits /\ [][NextUnits]_vars

InitStorage == CalcIdle /\ AssessIdle /\ BomIdle /\ StorageInit /\ SessionIdle
NextStorage == MergeVmData \/ ConvertToVmSpecs \/ add_storage
SpecStorage == InitStorage /\ [][NextStorage]_vars

InitMapper == CalcIdle /\ AssessIdle /\ BomIdle /\ MapperInit /\ SessionIdle
NextMapper == ConvertToVmSpecs
SpecMapper == InitMapper /\ [][NextMapper]_vars

InitPipeline == CalcIdle /\ AssessInit /\ BomIdle /\ PipeInit /\ SessionIdle
NextPipeline ==
    \/ ReadCsvFiles
    \/ MergeVmData
    \/ ConvertToVmSpecs
    \/ AddVms
    \/ PriceAssessment
SpecPipeline == InitPipeline /\ [][NextPipeline]_vars

InitSession == CalcIdle /\ AssessIdle /\ BomIdle /\ PipeIdle /\ SessionInit
NextSession ==
    \/ \E s \in SessionIds, file \in UploadedFiles : upload_file(s, file)
    \/ \E s \in SessionIds : get_status(s)
    \/ \E s \in SessionIds : StartProcessing(s)
    \/ \E s \in SessionIds : ImportModules(s)
    \/ \E s \in SessionIds : ExtractVmData(s)
    \/ \E s \in SessionIds : CalculatePricing(s)
    \/ \E s \in SessionIds : CreateOutputDir(s)
    \/ \E s \in SessionIds : GenerateReports(s)
SpecSession == InitSession /\ [][NextSession]_vars

\* A queued background task runs, and runs to its end: every step of
\* process_vm_assessment that is enabled is eventually taken.  Uploads and
\* status requests are the clients' and need never happen.
SpecSessionLive ==
    /\ InitSession /\ [][NextSession]_vars
    /\ \A s \in SessionIds : WF_vars(process_vm_assessment(s))

-----------------------------------------------------------------------------
(* Claims about the pricing calculator (Spec).                             *)

Called == calc_pc \in {"priced", "raised"}

\* C1: a VM whose power_state is not POWERED_ON (POWERED_OFF, SUSPENDED or
\* UNKNOWN) is priced to the empty list without an error, for every rate card
\* and whatever its cpu_cores, memory_gb, storage and os_type are.
C1_NotPoweredOnCostsNothing ==
    (Called /\ vm.power_state # POWERED_ON)
        => (calc_pc = "priced" /\ cost_items = <<>>)

\* A suspended Windows VM with cores, memory and storage, priced to nothing
\* by a calculator whose rate card lacks the compute section.
C1_Witness ==
    /\ calc_pc = "priced"
    /\ vm.power_state = SUSPENDED
    /\ vm.cpu_cores > 0 /\ vm.memory_gb > 0 /\ vm.storage # <<>>
    /\ vm.os_type = OS_WINDOWS
    /\ "compute_pricing" \notin DOMAIN pricing_config
    /\ cost_items = <<>>

\* The least n with 2n >= c, for c >= 1.
CeilHalf(c) == CHOOSE n \in 1..c : 2 * n >= c /\ 2 * (n - 1) < c

OcpuTable == <<1, 1, 2, 2, 3>>

\* C2: the OCPU count is 0 for cpu_cores <= 0 and the ceiling of cpu_cores / 2
\* for cpu_cores >= 1 (1->1, 2->1, 3->2, 4->2, 5->3), at least 1 for every
\* positive input, and cpu_cores = 1 gets what (cores + 1) // 2 gives.
C2_OcpuIsCeilingOfHalf ==
    (Called /\ vm.power_state = POWERED_ON) =>
        /\ vm.cpu_cores <= 0 => ocpu_count = 0
        /\ vm.cpu_cores >= 1 =>
              ocpu_count = CeilHalf(vm.cpu_cores) /\ ocpu_count >= 1
        /\ vm.cpu_cores \in DOMAIN OcpuTable =>
              ocpu_count = OcpuTable[vm.cpu_cores]
        /\ vm.cpu_cores = 1 => ocpu_count = (vm.cpu_cores + 1) \div 2

\* An odd core count above 1, rounded up.
C2_Witness ==
    /\ Called
    /\ vm.power_state = POWERED_ON
    /\ vm.cpu_cores = 3
    /\ ocpu_count = 2

\* The rate card inputs C5 is about: no file, a file that does not parse, and
\* a parsed file that is not an object with all five sections.
MalformedOrAbsent ==
    config_file.kind # "object" \/ config_file.sections # Sections

\* C5: for every absent, unparseable or malformed rate card, constructing the
\* calculator and pricing a powered-on VM raises nothing and uses the default
\* rate card.
C5_FallsBackToDefaultRateCard ==
    MalformedOrAbsent =>
        /\ calc_pc \notin {"init_raised", "raised"}
        /\ calc_pc # "new" => pricing_config = _get_default_config

-----------------------------------------------------------------------------
(* Claims about VMAssessment (SpecAssessment).                             *)

\* C3: in every reachable state of a VMAssessment, after construction, after
\* add_vm and after the filter of process(), total_vms is the length of vms
\* and powered_on_vms the number of POWERED_ON VMs in vms.
C3_CountsMatchList ==
    /\ total_vms = Len(vms)
    /\ powered_on_vms =
          Cardinality({i \in 1..Len(vms) : vms[i].power_state = POWERED_ON})

-----------------------------------------------------------------------------
(* Claims about BillOfMaterials (SpecBOM).                                 *)

LineCosts == [i \in 1..Len(line_items) |-> line_items[i].total_cost]

RECURSIVE ExactSum(_)
ExactSum(s) == IF s = <<>> THEN 0 ELSE Head(s) + ExactSum(Tail(s))

\* C4 as stated: total_monthly_cost is the sum of the line items' total_cost,
\* total_annual_cost is total_monthly_cost times 12, and annual_cost is
\* monthly_cost times 12 for every line item.
C4_AnnualIsTwelveTimesMonthly ==
    /\ total_monthly_cost(line_items) = FSum(LineCosts)
    /\ total_annual_cost(line_items) = FMul(total_monthly_cost(line_items), 12)
    /\ \A i \in 1..Len(line_items) :
          annual_cost(line_items[i]) = FMul(monthly_cost(line_items[i]), 12)

\* C4 as amended: total_monthly_cost is the sum of the line items' total_cost,
\* total_annual_cost is the sum of the line items' total_cost times 12, each
\* product rounded before it is added, annual_cost is monthly_cost times 12
\* for every line item, and total_annual_cost is total_monthly_cost times 12
\* when no sum or product is rounded.
C4_AnnualIsSumOfAnnualCosts ==
    /\ total_monthly_cost(line_items) = FSum(LineCosts)
    /\ total_annual_cost(line_items) =
          FSum([i \in 1..Len(line_items) |-> FMul(LineCosts[i], 12)])
    /\ \A i \in 1..Len(line_items) :
          annual_cost(line_items[i]) = FMul(monthly_cost(line_items[i]), 12)
    /\ BitLength(12 * ExactSum(LineCosts)) <= SignificandBits =>
          total_annual_cost(line_items) = 12 * total_monthly_cost(line_items)

\* A bill of two line items whose annual total is not twelve times its
\* monthly total.
C4_Witness ==
    /\ Len(line_items) = 2
    /\ total_annual_cost(line_items)
          # FMul(total_monthly_cost(line_items), 12)

-----------------------------------------------------------------------------
(* Claims about the extraction pipeline (SpecPipeline).                    *)

Merged == extract_pc \in {"merged", "converted", "returned", "priced"}

Built == extract_pc \in {"converted", "returned", "priced"}

MergedRows == {r \in 1..Len(merged_data.rows) : TRUE}

MergedCell(r, col, default) == RowGet(merged_data, merged_data.rows[r], col, default)

\* The CPU and memory a merged row resolves to.
ResolvedCpu(r) == _safe_int(MergedCell(r, _map_columns(merged_data)["cpu"], Num(0)))

ResolvedMemory(r) ==
    _safe_float(MergedCell(r, _map_columns(merged_data)["memory"], Num(0)))

ZeroRow(r) == ResolvedCpu(r) = 0 /\ ResolvedMemory(r) = 0

ZeroRecord(v) == v.cpu_cores = 0 /\ v.memory_gb = 0

\* C6: no record the builder produced, and no VM of the assessment, has
\* cpu_cores = 0 and memory_gb = 0 together; the merged rows whose CPU and
\* memory both resolve to 0 (a zero, a missing column, a missing cell, a cell
\* that does not parse) produce no record, and every line item of the bill
\* belongs to a VM of the assessment that is no such VM.
C6_NoZeroResourceRecord ==
    /\ \A i \in 1..Len(vm_specs) : ~ZeroRecord(vm_specs[i])
    /\ \A i \in 1..Len(vms) : ~ZeroRecord(vms[i])
    /\ Built => Len(vm_specs) <= Cardinality({r \in MergedRows : ~ZeroRow(r)})
    /\ extract_pc \in {"returned", "priced"} => Len(vms) = Len(vm_specs)
    /\ \A k \in 1..Len(line_items) :
          \E i \in 1..Len(vms) :
              /\ vms[i].vm_id = line_items[k].vm_id
              /\ vms[i].vm_name = line_items[k].vm_name
              /\ ~ZeroRecord(vms[i])

\* An archive priced to a bill in which one row with a name and an identity
\* was dropped because its CPU cell does not parse and it has no memory.
C6_Witness ==
    /\ extract_pc = "priced"
    /\ line_items # <<>>
    /\ Len(vm_specs) = 1
    /\ \E r \in MergedRows :
          /\ ZeroRow(r)
          /\ MergedCell(r, "cpu_CPUs", NaN) = Str("bad")
          /\ MergedCell(r, "cpu_VM", NaN) = Str("web")
          /\ MergedCell(r, ID, NaN) = Str("u1")

\* The identity and the name a merged row really holds: a text cell that is
\* not blank, in the identity column and in the mapped name column.
RealId(r) ==
    /\ MergedCell(r, ID, NaN).t = "str"
    /\ MergedCell(r, ID, NaN).s # ""

RealName(r) ==
    LET cell == MergedCell(r, _map_columns(merged_data)["vm_name"], NaN)
    IN cell.t = "str" /\ Strip(cell.s) # ""

\* C7: only the merged rows whose identity and mapped name are real,
\* non-blank cell values produce a record, the others are skipped without an
\* error; every record and every VM of the assessment has a non-empty vm_id
\* and vm_name that are the values of such a row.
C7_RecordsCarryRealIdentity ==
    Built =>
        /\ Len(vm_specs) <= Cardinality({r \in MergedRows : RealId(r) /\ RealName(r)})
        /\ \A i \in 1..Len(vm_specs) :
              /\ vm_specs[i].vm_id # "" /\ vm_specs[i].vm_name # ""
              /\ \E r \in MergedRows :
                    /\ RealId(r) /\ RealName(r)
                    /\ vm_specs[i].vm_id = MergedCell(r, ID, NaN).s
                    /\ vm_specs[i].vm_name =
                          Strip(MergedCell(r, _map_columns(merged_data)["vm_name"],
                                           NaN).s)
        /\ \A i \in 1..Len(vms) : vms[i].vm_id # "" /\ vms[i].vm_name # ""

\* C8: with an empty dataset mapping _merge_vm_data raises "No CSV data to
\* merge" and no table is returned: extract_vm_data ends raised, with no
\* merged table, no record, no VM in an assessment and no bill; a run that
\* got a merged table had a dataset.
C8_EmptyMappingRaises ==
    /\ (csv_data = <<>> /\ extract_pc \notin {"start", "read"}) =>
          /\ extract_pc = "raised"
          /\ merged_data = NoTable /\ vm_specs = <<>>
          /\ vms = <<>> /\ line_items = <<>> /\ calc_pc = "new"
    /\ Merged => csv_data # <<>>
    /\ _merge_vm_data(<<>>, FALSE).error = "No CSV data to merge"

\* The run on an archive with no usable dataset, after the merge was called.
C8_Witness ==
    /\ csv_data = <<>>
    /\ extract_pc = "raised"

BaseDataset == Lookup(csv_data, BaseKey(csv_data))

\* The rows of the merged table with the identity id.
MergedRowsOf(id) == {r \in MergedRows : MergedCell(r, ID, NaN) = Str(id)}

\* The columns the dataset named key brought into the merged table.
ColumnsFrom(key) ==
    {c \in 1..Len(merged_data.columns) :
        /\ Len(merged_data.columns[c]) > Len(key)
        /\ SubSeq(merged_data.columns[c], 1, Len(key) + 1) = key \o "_"}

\* C9: the merged table has exactly one row for every identity value of the
\* base dataset (cpu when supplied, else the first) and no other row; the
\* row of an identity that a secondary dataset lacks holds missing values in
\* that dataset's columns.
C9_OneRowPerBaseIdentity ==
    Merged =>
        /\ Len(merged_data.rows) = Cardinality(IdsOf(BaseDataset))
        /\ \A id \in IdsOf(BaseDataset) : Cardinality(MergedRowsOf(id)) = 1
        /\ \A k \in 1..Len(csv_data) :
              \A id \in IdsOf(BaseDataset) \ IdsOf(csv_data[k].df) :
                  \A r \in MergedRowsOf(id) :
                      \A c \in ColumnsFrom(csv_data[k].name) :
                          csv_data[k].name # BaseKey(csv_data) =>
                              merged_data.rows[r][c] = NaN

\* C10: for every dataset of the archive, which has the identity column,
\* _aggregate_vm_data returned exactly one row per identity value of the
\* dataset and no other row, with the normal reduction and with the
\* first-row fallback.
C10_OneRowPerIdentity ==
    Merged =>
        \A k \in 1..Len(csv_data) :
            /\ Len(aggregated[k].rows) = Cardinality(IdsOf(csv_data[k].df))
            /\ \A id \in IdsOf(csv_data[k].df) : value_count(aggregated[k], id) = 1

-----------------------------------------------------------------------------
(* Claims about calculate_assessment_cost (SpecBill).                      *)

Eligible(v) ==
    v.power_state = POWERED_ON \/ Get(metadata, "include_powered_off", FALSE)

\* The cost components calculate_vm_cost returns for the i-th VM of the
\* assessment when it is eligible.
ComponentsOf(i) ==
    IF Eligible(vms[i])
    THEN calculate_vm_cost(pricing_config, hours_per_month, InGB(vms[i])).items
    ELSE <<>>

\* The number of line items of the VMs before the i-th.
ItemsBefore(i) == SumSeq([j \in 1..(i - 1) |-> Len(ComponentsOf(j))])

\* C11: the bill calculate_assessment_cost returns holds, for every eligible
\* VM (powered on, or any when include_powered_off is set) in assessment
\* order, one line item per cost component of calculate_vm_cost in component
\* order, and nothing else; every line item names an eligible VM of the
\* assessment.
C11_BillIsComponentsOfEligibleVMs ==
    calc_pc = "billed" =>
        /\ Len(line_items) = ItemsBefore(Len(vms) + 1)
        /\ \A i \in 1..Len(vms) :
              \A c \in 1..Len(ComponentsOf(i)) :
                  LET item == line_items[ItemsBefore(i) + c]
                      cost == ComponentsOf(i)[c]
                  IN /\ item.vm_id = vms[i].vm_id
                     /\ item.vm_name = vms[i].vm_name
                     /\ item.os_type = vms[i].os_type
                     /\ item.component_type = cost.component_type
                     /\ item.quantity = cost.quantity
                     /\ item.unit = cost.unit
                     /\ item.unit_price = cost.unit_price
                     /\ item.total_cost = cost.total_cost
        /\ \A k \in 1..Len(line_items) :
              \E i \in 1..Len(vms) :
                  vms[i].vm_id = line_items[k].vm_id /\ Eligible(vms[i])

\* A bill for a powered-on VM with five components, a powered-off VM that
\* the flag makes eligible, and a powered-on VM with one component.
C11_Witness ==
    /\ calc_pc = "billed"
    /\ Get(metadata, "include_powered_off", FALSE)
    /\ Len(vms) = 3
    /\ vms[1].vm_id = "u1" /\ vms[2].vm_id = "u3" /\ vms[3].vm_id = "u2"
    /\ Len(line_items) = 6
    /\ line_items[6].vm_id = "u2"

\* pricing_metadata.currency of the rate card the calculator holds, EUR when
\* the rate card names none.
RateCardCurrency ==
    IF config_file.kind = "object" /\ "pricing_metadata" \in config_file.sections
    THEN config_file.currency
    ELSE "EUR"

\* C12: every line item of a bill, those calculate_assessment_cost made and
\* those added through add_line_item, has the bill's currency, and the bill
\* calculate_assessment_cost returns has the currency of the rate card.
C12_LineItemsCarryBillCurrency ==
    /\ \A k \in 1..Len(line_items) : line_items[k].currency = bom_currency
    /\ calc_pc \in {"billed", "amended"} => bom_currency = RateCardCurrency

\* A bill in USD to which a line item was added.
C12_Witness ==
    /\ calc_pc = "amended"
    /\ bom_currency = "USD"
    /\ Len(line_items) >= 2
    /\ line_items[Len(line_items)].vm_id = "u9"
    /\ line_items[Len(line_items)].currency = "USD"

\* The pricing_source of the bill of a run whose rate card file was loaded:
\* calculate_assessment_cost passes provider_name.
LoadedRunLabel == provider_name

\* C20: when the rate card file is absent or does not parse, the default
\* rate card is used, pricing goes on to a bill, and the bill's
\* pricing_source differs from the one of a run that loaded its rate card.
C20_FallbackLabelDiffers ==
    config_file.kind \in {"absent", "unparseable"} =>
        /\ calc_pc \notin {"init_raised", "raised"}
        /\ calc_pc # "new" => pricing_config = _get_default_config
        /\ calc_pc \in {"billed", "amended"} => pricing_source # LoadedRunLabel

-----------------------------------------------------------------------------
(* Claims about the components of calculate_vm_cost (Spec).                *)

ComponentOrder ==
    <<"Compute", "Memory", "Storage", "Storage Performance", "OS License">>

PositionOf(type) ==
    CHOOSE k \in 1..Len(ComponentOrder) : ComponentOrder[k] = type

HasComponent(type) ==
    \E i \in 1..Len(cost_items) : cost_items[i].component_type = type

\* The call returned a list for a powered-on VM.
ReturnedForPoweredOn == calc_pc = "priced" /\ vm.power_state = POWERED_ON

\* C13: for a powered-on VM the returned components are Compute, Memory,
\* Storage, Storage Performance, OS License in that order, each at most
\* once; Compute is there iff the OCPU count is positive, Memory iff
\* memory_gb > 0, Storage iff total_storage_gb > 0, OS License iff the OS is
\* Windows and the OCPU count is positive; the OS License quantity is the
\* Compute quantity.
C13_ComponentsInOrder ==
    ReturnedForPoweredOn =>
        /\ \A i \in 1..Len(cost_items) :
              \E k \in 1..Len(ComponentOrder) :
                  cost_items[i].component_type = ComponentOrder[k]
        /\ \A i, j \in 1..Len(cost_items) :
              i < j => PositionOf(cost_items[i].component_type)
                          < PositionOf(cost_items[j].component_type)
        /\ HasComponent("Compute") <=> ocpu_count > 0
        /\ HasComponent("Memory") <=> vm.memory_gb > 0
        /\ HasComponent("Storage") <=> total_storage_gb(vm) > 0
        /\ HasComponent("OS License") <=>
              (vm.os_type = OS_WINDOWS /\ ocpu_count > 0)
        /\ \A i, j \in 1..Len(cost_items) :
              (cost_items[i].component_type = "Compute"
               /\ cost_items[j].component_type = "OS License")
                  => cost_items[j].quantity = cost_items[i].quantity

\* A Windows VM with memory and storage: all five components.
C13_Witness ==
    /\ ReturnedForPoweredOn
    /\ vm.os_type = OS_WINDOWS
    /\ Len(cost_items) = 5
    /\ cost_items[5].component_type = "OS License"
    /\ cost_items[5].quantity = 2

\* C14: a Storage Performance component is returned iff a Storage component
\* is, right after it; its quantity is 10 times the Storage quantity, which
\* is total_storage_gb, and its total cost is that quantity times the VPU
\* monthly rate of the rate card.
C14_StoragePerformanceFollowsStorage ==
    ReturnedForPoweredOn =>
        /\ \A i \in 1..Len(cost_items) :
              cost_items[i].component_type = "Storage" =>
                  /\ i < Len(cost_items)
                  /\ cost_items[i + 1].component_type = "Storage Performance"
                  /\ cost_items[i].quantity = total_storage_gb(vm)
                  /\ cost_items[i + 1].quantity = 10 * cost_items[i].quantity
                  /\ cost_items[i + 1].total_cost =
                        cost_items[i + 1].quantity
                        * pricing_config.storage_pricing.block_volume_vpu.unit_price
        /\ \A i \in 1..Len(cost_items) :
              cost_items[i].component_type = "Storage Performance" =>
                  i > 1 /\ cost_items[i - 1].component_type = "Storage"

\* A VM with extents of 50 GB and 20 GB: 700 VPUs after 70 GB.
C14_Witness ==
    /\ ReturnedForPoweredOn
    /\ vm.storage = <<50, 20>>
    /\ \E i \in 1..Len(cost_items) :
          /\ cost_items[i].component_type = "Storage Performance"
          /\ cost_items[i].quantity = 700
          /\ cost_items[i].total_cost = 700 * 1581

-----------------------------------------------------------------------------
(* Claims about the classification of built records (SpecPipeline).        *)

\* The merged rows a record can have been built from: those with its
\* identity.
RowsOfRecord(v) == {r \in MergedRows : PyStr(MergedCell(r, ID, Str(""))) = v.vm_id}

MentionsAny(text, words) == \E w \in words : Contains(w, Lower(text))

\* The OS class C15 gives a descriptor.
ClaimedOsType(descriptor) ==
    IF descriptor = "" THEN OS_UNKNOWN
    ELSE IF MentionsAny(descriptor, {"windows", "microsoft"}) THEN OS_WINDOWS
    ELSE IF MentionsAny(descriptor,
                {"ubuntu", "centos", "oracle linux", "debian", "suse", "linux",
                 "rhel", "unix", "aix", "solaris", "bsd"})
    THEN OS_LINUX
    ELSE OS_OTHER

\* The OS descriptor of a merged row: the text of the mapped cell, and ""
\* when no column is mapped or the cell is absent.
OsDescriptor(r) ==
    LET cell == MergedCell(r, _map_columns(merged_data)["os_config"], NaN)
    IN IF cell.t = "str" THEN cell.s ELSE ""

\* C15: detect_os_type gives Unknown for the empty descriptor, else Windows
\* when the descriptor mentions windows or microsoft in any case, else Linux
\* when it mentions a unix-family keyword, else Other; and every built record
\* has the class of its row's descriptor, Unknown when the row has none (no
\* column mapped, or an absent cell).
C15_OsClassOfDescriptor ==
    /\ \A cell \in OsCells \cup {Str("")} :
          cell.t = "str" => detect_os_type(cell.s) = ClaimedOsType(cell.s)
    /\ Built =>
          \A i \in 1..Len(vm_specs) :
              \E r \in RowsOfRecord(vm_specs[i]) :
                  vm_specs[i].os_type = ClaimedOsType(OsDescriptor(r))

\* The power-state column of the merged table, "" when there is none.
PowerColumn == _map_columns(merged_data)["powerstate"]

\* The power state C16 gives a power-state value.
ClaimedPowerState(text) ==
    IF MentionsAny(text, {"on", "running"}) THEN POWERED_ON
    ELSE IF MentionsAny(text, {"off", "stopped"}) THEN POWERED_OFF
    ELSE IF MentionsAny(text, {"suspend"}) THEN SUSPENDED
    ELSE UNKNOWN

\* C16: a built record is powered on when the merged table has no
\* power-state column; otherwise its power state is the class of its row's
\* power-state value: on or running, then off or stopped, then suspend, else
\* unknown (a missing value has none of the words); poweredOn, poweredOff
\* and suspended are on, off and suspended.
C16_PowerStateOfRecord ==
    /\ detect_power_state("poweredOn") = POWERED_ON
    /\ detect_power_state("poweredOff") = POWERED_OFF
    /\ detect_power_state("suspended") = SUSPENDED
    /\ Built =>
          \A i \in 1..Len(vm_specs) :
              \E r \in RowsOfRecord(vm_specs[i]) :
                  vm_specs[i].power_state =
                      IF PowerColumn = "" THEN POWERED_ON
                      ELSE LET cell == MergedCell(r, PowerColumn, NaN)
                           IN IF cell.t = "str" THEN ClaimedPowerState(cell.s)
                              ELSE UNKNOWN

\* A record built from a row whose power-state value has both off and on in
\* it, classified on.
C16_Witness ==
    /\ Built
    /\ PowerColumn = "info_Powerstate"
    /\ Len(vm_specs) = 1
    /\ MergedCell(1, PowerColumn, NaN) = Str("off, connection lost")
    /\ vm_specs[1].power_state = POWERED_ON

-----------------------------------------------------------------------------
(* Claims about unit conversion (SpecUnits).                               *)

UnitInput == csv_data[1].df

UnitOutput == aggregated[1]

\* What the header of a numeric column says about its unit.
SaysMiB(col) == Contains("mib", Lower(col))

SaysMB(col) == Contains("mb", Lower(col)) /\ ~Contains("mbps", Lower(col))

\* The column that holds the gigabytes of a converted column.
GigabyteColumn(col) ==
    IF SaysMiB(col) THEN Replace(Replace(col, " MiB", " GB"), "MiB", "_GB")
    ELSE Replace(Replace(col, " MB", " GB"), "MB", "_GB")

\* x / d to 2 decimal places, for a cell of hundredths.
Divided(cell, d) ==
    IF cell.t # "num" THEN cell
    ELSE Num(CHOOSE q \in 0..cell.n :
                /\ 2 * (IF q * d > cell.n THEN q * d - cell.n ELSE cell.n - q * d) <= d
                /\ (2 * (cell.n - q * d) = d => q % 2 = 0)
                /\ (2 * (q * d - cell.n) = d => q % 2 = 0))

ColumnCells(df, col) ==
    [r \in 1..Len(df.rows) |-> df.rows[r][ColumnIndex(df, col)]]

\* C17: every numeric column detected as MiB holds its values divided by
\* 1024, every numeric column detected as MB (not Mbps) its values divided by
\* 1000, rounded to 2 decimal places and divided once; 1024 MiB and 1000 MB
\* become 1.0; the other columns, non-numeric and Mbps ones among them, hold
\* their values as read.
C17_ConvertedOnceByUnit ==
    extract_pc = "normalized" =>
        \A i \in 1..Len(UnitInput.columns) :
            LET col == UnitInput.columns[i]
                cells == ColumnCells(UnitInput, col)
                numeric == is_numeric_dtype(UnitInput, col)
            IN IF numeric /\ (SaysMiB(col) \/ SaysMB(col))
               THEN /\ HasColumn(UnitOutput, GigabyteColumn(col))
                    /\ ColumnCells(UnitOutput, GigabyteColumn(col)) =
                          [r \in 1..Len(cells) |->
                              Divided(cells[r],
                                      IF SaysMiB(col) THEN 1024 ELSE 1000)]
               ELSE /\ HasColumn(UnitOutput, col)
                    /\ ColumnCells(UnitOutput, col) = cells

-----------------------------------------------------------------------------
(* Claims about an identity of the cpu and the disk dataset (SpecPipeline). *)

CpuDataset == Lookup(csv_data, "cpu")

DiskDataset == Lookup(csv_data, "disk")

\* The identity has one row in the cpu dataset and at least one in the disk
\* dataset.
OneCpuRowAndDisks(id) ==
    /\ HasKey(csv_data, "cpu") /\ HasKey(csv_data, "disk")
    /\ HasColumn(CpuDataset, "CPUs") /\ HasColumn(DiskDataset, "Capacity MiB")
    /\ value_count(CpuDataset, id) = 1
    /\ value_count(DiskDataset, id) >= 1

CpuRowOf(id) == GroupRows(CpuDataset, id)[1]

\* The CPU cell of the identity's cpu row holds the whole number cores.
CpuCellHolds(id, cores) ==
    LET cell == CpuRowOf(id)[ColumnIndex(CpuDataset, "CPUs")]
    IN notna(cell) /\ ~FloatRaises(cell) /\ ToFloat(cell) = cores * Scale

\* The sum of the capacities of the identity's disk rows, in hundredths of a
\* GB.
DiskCapacitySum(id) ==
    LET g == GroupRows(DiskDataset, id)
        i == ColumnIndex(DiskDataset, "Capacity MiB")
    IN SumCells(NonNull([r \in 1..Len(g) |-> ConvertCell(g[r][i], 1024)]))

RecordsOf(id) == {i \in 1..Len(vm_specs) : vm_specs[i].vm_id = id}

OneRecordWithSum(id) ==
    /\ Cardinality(RecordsOf(id)) = 1
    /\ \A i \in RecordsOf(id) :
          /\ CpuCellHolds(id, vm_specs[i].cpu_cores)
          /\ total_storage_gb(vm_specs[i]) = DiskCapacitySum(id)

\* The archive of the example: cpu = {VM-1: 4 cores}, disk = {VM-1: 50 GB,
\* VM-1: 20 GB}.
ExampleArchive ==
    /\ OneCpuRowAndDisks("u1")
    /\ Len(CpuDataset.rows) = 1 /\ CpuCellHolds("u1", 4)
    /\ Len(DiskDataset.rows) = 2
    /\ \A r \in 1..2 : IdCell(DiskDataset, r) = Str("u1")
    /\ DiskDataset.rows[1][ColumnIndex(DiskDataset, "Capacity MiB")] = Num(5120000)
    /\ DiskDataset.rows[2][ColumnIndex(DiskDataset, "Capacity MiB")] = Num(2048000)

\* cpu_cores = 4, total_storage_gb = 70, and a compute line of 2 OCPU costing
\* 41.5152 at 0.0279 an hour and 744 hours.
ExampleResult ==
    /\ Built =>
          /\ Len(vm_specs) = 1
          /\ vm_specs[1].cpu_cores = 4
          /\ total_storage_gb(vm_specs[1]) = 70 * Scale
          /\ _calculate_ocpu_count(vm_specs[1].cpu_cores) = 2
    /\ extract_pc = "priced" =>
          /\ pricing_config.compute_pricing.ocpu.unit_price = 27900
          /\ hours_per_month = 744
          /\ line_items # <<>>
          /\ line_items[1].component_type = "Compute"
          /\ line_items[1].quantity = 2
          /\ line_items[1].total_cost = 41515200

\* The CPU count of the identity's cpu row is at least 1 and its name is not
\* blank.
CountedAndNamed(id) ==
    LET name == CpuRowOf(id)[ColumnIndex(CpuDataset, "VM")]
    IN /\ \E cores \in 1..MaxCores : CpuCellHolds(id, cores)
       /\ HasColumn(CpuDataset, "VM")
       /\ name.t = "str" /\ Strip(name.s) # ""

OneRecordWithPositiveSum(id) ==
    /\ Cardinality(RecordsOf(id)) = 1
    /\ \A i \in RecordsOf(id) :
          /\ CpuCellHolds(id, vm_specs[i].cpu_cores)
          /\ total_storage_gb(vm_specs[i])
                = IF DiskCapacitySum(id) > 0 THEN DiskCapacitySum(id) ELSE 0

NoIdentityRepeats(df) ==
    \A k \in 1..Len(IdOrder) : value_count(df, IdOrder[k]) <= 1

\* C19: for every dataset of the archive in which no identity repeats,
\* _aggregate_vm_data returned the rows, row order and values of unit
\* normalization alone; and aggregating what _aggregate_vm_data returned
\* gives the same table again, whether or not the reduction falls back.
C19_AggregationIdempotent ==
    Merged =>
        \A k \in 1..Len(csv_data) :
            /\ NoIdentityRepeats(csv_data[k].df) =>
                  aggregated[k] = _convert_units(csv_data[k].df)
            /\ \A fails \in BOOLEAN :
                  _aggregate_vm_data(aggregated[k], fails) = aggregated[k]

-----------------------------------------------------------------------------
(* Claims about the cells of the merged rows (SpecPipeline).               *)

\* The cell of a merged row that a field of the column map resolves to.
FieldCell(r, field, default) ==
    MergedCell(r, _map_columns(merged_data)[field], default)

\* The value is missing or float() cannot parse it.
MissingOrUnparsed(cell) == ~notna(cell) \/ FloatRaises(cell)

\* The row has the identity and the name the builder asks for.
Identified(r) ==
    ~LacksIdentity(PyStr(MergedCell(r, ID, Str(""))),
                   Strip(PyStr(FieldCell(r, "vm_name", Str("")))))

\* C21: _safe_int and _safe_float raise for no cell of a merged row (number,
\* numeric or other text, missing, infinity, absent column) and return 0 for a
\* missing or unparseable one; so every identified row whose CPU and memory
\* are not both 0 gives a record: no row is dropped by an exception.
C21_SafeConversionsNeverRaise ==
    /\ Merged =>
          \A r \in MergedRows :
              /\ ~SafeIntRaises(FieldCell(r, "cpu", Num(0)))
              /\ MissingOrUnparsed(FieldCell(r, "cpu", Num(0)))
                    => _safe_int(FieldCell(r, "cpu", Num(0))) = 0
              /\ \A f \in {"memory", "disk_capacity"} :
                    MissingOrUnparsed(FieldCell(r, f, Num(0)))
                        => _safe_float(FieldCell(r, f, Num(0))) = 0
    /\ Built =>
          Len(vm_specs) =
              Cardinality({r \in MergedRows : Identified(r) /\ ~ZeroRow(r)})

\* C22: every record the builder produced and every VM of the assessment
\* has cpu_cores >= 0 and memory_gb >= 0, also for tables with negative
\* cells; and every line item of the bill priced from them, with the
\* non-negative prices of the rate card, has quantity >= 0 and total_cost >= 0.
C22_NonNegativeResources ==
    /\ \A i \in 1..Len(vm_specs) :
          vm_specs[i].cpu_cores >= 0 /\ vm_specs[i].memory_gb >= 0
    /\ \A i \in 1..Len(vms) : vms[i].cpu_cores >= 0 /\ vms[i].memory_gb >= 0
    /\ \A k \in 1..Len(line_items) :
          line_items[k].quantity >= 0 /\ line_items[k].total_cost >= 0

-----------------------------------------------------------------------------
(* Claims about the VMs of an assessment (SpecAssessment, SpecPipeline).   *)

\* C23: the vm_id values of the VMs of the assessment are non-empty and
\* pairwise distinct, after every sequence of add_vm calls and in the
\* assessment extract_vm_data returns.
C23_VmIdsDistinct ==
    /\ \A i \in 1..Len(vms) : vms[i].vm_id # ""
    /\ \A i, j \in 1..Len(vms) : vms[i].vm_id = vms[j].vm_id => i = j

-----------------------------------------------------------------------------
(* Claims about the storage of a record (SpecStorage).                     *)

\* The capacities of the extents, added up from the last one.
RECURSIVE CapacitySum(_)
CapacitySum(extents) ==
    IF extents = <<>> THEN 0
    ELSE CapacitySum(SubSeq(extents, 1, Len(extents) - 1)) + extents[Len(extents)]

\* The disk capacity the builder resolved for the one row of the archive.
ResolvedCapacity == _safe_float(FieldCell(1, "disk_capacity", Num(0)))

\* C24: total_storage_gb of a record is the sum of the capacities of its
\* extents after every sequence of add_storage calls; and the record as the
\* builder returned it has an extent exactly when the resolved disk capacity
\* is > 0, every extent has a capacity > 0, and total_storage_gb is 0
\* exactly when it has no extent.
C24_TotalStorageIsSumOfExtents ==
    /\ \A i \in 1..Len(vm_specs) :
          total_storage_gb(vm_specs[i]) = CapacitySum(vm_specs[i].storage)
    /\ extract_pc = "converted" =>
          \A i \in 1..Len(vm_specs) :
              /\ vm_specs[i].storage # <<>> <=> ResolvedCapacity > 0
              /\ vm_specs[i].storage # <<>> =>
                    vm_specs[i].storage = <<ResolvedCapacity>>
              /\ \A k \in 1..Len(vm_specs[i].storage) :
                    vm_specs[i].storage[k] > 0
              /\ total_storage_gb(vm_specs[i]) = 0 <=> vm_specs[i].storage = <<>>

\* A record built with the 50.25 GB of its two disk rows as one extent, to
\* which add_storage added 20 GB and 50 GB.
C24_Witness ==
    /\ extract_pc = "extended"
    /\ Len(vm_specs) = 1
    /\ vm_specs[1].storage = <<5025, 2000, 5000>>
    /\ total_storage_gb(vm_specs[1]) = 12025

-----------------------------------------------------------------------------
(* Claims about the column map (SpecMapper).                               *)

\* The keyword test of a field, on a column name.
Satisfies(field, col) ==
    LET l == Lower(col)
    IN CASE field = "vm_name" ->
                Contains("vm", l) /\ (Contains("name", l) \/ EndsWith(l, "_vm"))
         [] field = "os_config" ->
                Contains("os according", l)
                \/ (Contains("tools", l) /\ Contains("os", l))
         [] field = "cpu" ->
                Contains("cpus", l) \/ l = "info_cpus" \/ l = "cpu_cpus"
         [] field = "memory" ->
                Contains("size", l) /\ Contains("gb", l) /\ Contains("memory", l)
         [] field = "disk_capacity" ->
                Contains("capacity", l) /\ Contains("gb", l)
                /\ (Contains("disk", l) \/ Contains("total", l))
         [] field = "host" -> Contains("host", l) /\ Contains("name", l)
         [] field \in {"annotation", "powerstate", "cluster", "datacenter"} ->
                Contains(field, l)

\* The first column in header order that satisfies the field's test, "" when
\* there is none.
FirstSatisfying(columns, field) ==
    IF \E i \in 1..Len(columns) : Satisfies(field, columns[i])
    THEN columns[CHOOSE i \in 1..Len(columns) :
                    /\ Satisfies(field, columns[i])
                    /\ \A j \in 1..(i - 1) : ~Satisfies(field, columns[j])]
    ELSE ""

\* C25: for every header row and every field, the column _map_columns maps
\* to the field is the first column in header order that satisfies the
\* field's keyword test, whatever columns follow it, and the field is
\* unmapped only when no column satisfies its test.
C25_FirstMatchingColumnWins ==
    extract_pc = "converted" =>
        \A field \in Fields :
            column_mapping[field] = FirstSatisfying(merged_data.columns, field)

-----------------------------------------------------------------------------
(* Claims about the order of conversion and aggregation (SpecStorage).     *)

\* The numeric columns of a dataset that are expressed in MiB or MB.
UnitColumns(df) ==
    {i \in 1..Len(df.columns) :
        IsMiBColumn(df, df.columns[i]) \/ IsMBColumn(df, df.columns[i])}

\* The sum of the converted cells of column i over the rows of the identity.
ConvertedSum(df, id, i) ==
    LET g == GroupRows(df, id)
        divisor == IF IsMiBColumn(df, df.columns[i]) THEN 1024 ELSE 1000
    IN SumCells(NonNull([r \in 1..Len(g) |-> ConvertCell(g[r][i], divisor)]))

\* The cell of the identity's row of a table, in the named column.
CellOf(df, id, col) == GroupRows(df, id)[1][ColumnIndex(df, col)]

\* The gigabyte name of a MiB or MB column.
GigabyteName(col) ==
    Replace(Replace(Replace(Replace(col, " MiB", " GB"), "MiB", "_GB"),
                    " MB", " GB"), "MB", "_GB")

\* C26: every dataset is converted before its rows are aggregated: where an
\* identity repeats, the table handed to groupby has no column in MiB or MB,
\* and the gigabyte cell of an aggregated capacity column is the sum of the
\* group's rows' converted (divided, rounded to 2 places) values.
C26_ConvertedBeforeAggregated ==
    (extract_pc \in {"merged", "converted", "extended"} /\ ~agg_fails) =>
        \A k \in 1..Len(csv_data) :
            LET df == csv_data[k].df
            IN Grouped(df) =>
                  /\ UnitColumns(df) = {}
                  /\ \A i \in UnitColumns(df) :
                        \A id \in IdsOf(df) :
                            CellOf(aggregated[k], id, GigabyteName(df.columns[i]))
                                = Num(ConvertedSum(df, id, i))

-----------------------------------------------------------------------------
(* Claims about what unit normalization keeps (SpecUnits).                 *)

\* The header names a size in MiB or in MB: the unit is its last word.
DenotesMiB(col) == EndsWith(Lower(col), " mib")

DenotesMB(col) == EndsWith(Lower(col), " mb")

\* The header with the unit word replaced by GB.
InGigabytes(col) ==
    SubSeq(col, 1, Len(col) - (IF DenotesMiB(col) THEN 3 ELSE 2)) \o "GB"

\* C27: unit normalization loses nothing: the result has the rows and the
\* number of columns of the input; every numeric column whose header names
\* MiB or MB is replaced by one gigabyte column with its converted values,
\* and every other column (a header that names no such size, Mbps, a
\* non-numeric column) is there with its name and values.
C27_NormalizationKeepsData ==
    extract_pc = "normalized" =>
        /\ Len(UnitOutput.rows) = Len(UnitInput.rows)
        /\ Len(UnitOutput.columns) = Len(UnitInput.columns)
        /\ \A i \in 1..Len(UnitInput.columns) :
              LET col == UnitInput.columns[i]
                  cells == ColumnCells(UnitInput, col)
              IN IF is_numeric_dtype(UnitInput, col)
                    /\ (DenotesMiB(col) \/ DenotesMB(col))
                 THEN /\ ~HasColumn(UnitOutput, col)
                      /\ Cardinality({j \in 1..Len(UnitOutput.columns) :
                            UnitOutput.columns[j] = InGigabytes(col)}) = 1
                      /\ ColumnCells(UnitOutput, InGigabytes(col)) =
                            [r \in 1..Len(cells) |->
                                Divided(cells[r],
                                        IF DenotesMiB(col) THEN 1024 ELSE 1000)]
                 ELSE /\ HasColumn(UnitOutput, col)
                      /\ ColumnCells(UnitOutput, col) = cells

-----------------------------------------------------------------------------
(* Claims about the reduction of a group (SpecPipeline).                   *)

\* The cells of column i in the rows of the identity, in read order.
GroupCells(df, id, i) ==
    LET g == GroupRows(df, id) IN [r \in 1..Len(g) |-> g[r][i]]

NamesSize(col) ==
    \E word \in {"size", "capacity", "mib", "gb", "mb"} :
        Contains(word, Lower(col))

\* The values present in the cells, added up; an infinite value makes the
\* sum infinite.
Total(cells) ==
    IF \E i \in 1..Len(cells) : cells[i] = Inf THEN Inf
    ELSE Num(CapacitySum([i \in 1..Len(NonNull(cells)) |-> NonNull(cells)[i].n]))

\* Their mean, to the hundredth.
Average(cells) ==
    IF NonNull(cells) = <<>> THEN NaN
    ELSE IF Total(cells) = Inf THEN Inf
    ELSE Num(RoundHalfEven(Total(cells).n, Len(NonNull(cells))))

\* The first value of the cells in read order.
FirstValue(cells) ==
    IF \A i \in 1..Len(cells) : cells[i] = NaN THEN NaN
    ELSE cells[CHOOSE i \in 1..Len(cells) :
                  cells[i] # NaN /\ \A j \in 1..(i - 1) : cells[j] = NaN]

\* What the rule of the column reduces the group to.
RuleValue(df, id, i) ==
    IF ~is_numeric_dtype(df, df.columns[i]) THEN FirstValue(GroupCells(df, id, i))
    ELSE IF NamesSize(df.columns[i]) THEN Total(GroupCells(df, id, i))
    ELSE Average(GroupCells(df, id, i))

\* The reduced value as the aggregated table holds it: a column in MiB or MB
\* is in gigabytes there.
Normalized(df, i, cell) ==
    IF IsMiBColumn(df, df.columns[i]) THEN ConvertCell(cell, 1024)
    ELSE IF IsMBColumn(df, df.columns[i]) THEN ConvertCell(cell, 1000)
    ELSE cell

AggregatedCell(k, id, i) ==
    CellOf(aggregated[k], id, GigabyteName(csv_data[k].df.columns[i]))

OtherColumns(df) == {i \in 1..Len(df.columns) : df.columns[i] # ID}

-----------------------------------------------------------------------------
(* Claims about processing sessions (SpecSession, SpecSessionLive).        *)

Exists(s) == s \in DOMAIN processing_sessions

Terminal(s) ==
    Exists(s) /\ processing_sessions[s].status \in {"completed", "error"}

\* The uploaded file is one the processor extracts and the calculator
\* prices.
StepsSucceed(s) ==
    /\ Exists(s)
    /\ processing_sessions[s].file_path.extraction = "returns"
    /\ processing_sessions[s].file_path.pricing = "returns"

CompletedWithFiles(s) ==
    /\ Exists(s)
    /\ processing_sessions[s].status = "completed"
    /\ processing_sessions[s].progress = 100
    /\ processing_sessions[s].files # <<>>
    /\ Len(processing_sessions[s].report_args) >= Len(RequiredParameters)

EndsInTypeError(s) ==
    /\ Exists(s)
    /\ processing_sessions[s].status = "error"
    /\ processing_sessions[s].error = MissingArgument
    /\ processing_sessions[s].report_args = ReportCall

\* The half of C29 that holds: every session reaches completed or error.
ReachesTerminalStatus ==
    \A s \in SessionIds : Exists(s) ~> Terminal(s)

\* What a session whose steps succeed comes to: the call of the report
\* generator lacks the assessment and its TypeError ends the session.
SucceedingSessionEndsInError ==
    \A s \in SessionIds : StepsSucceed(s) ~> [] EndsInTypeError(s)

\* C29: every processing session eventually reaches a terminal status
\* (completed or error), and a session whose extraction and pricing steps
\* succeed eventually reaches status completed with progress 100 and a
\* non-empty list of files, the report generator having been called with
\* the arguments it requires.
C29_SessionReachesCompleted ==
    \A s \in SessionIds :
        /\ Exists(s) ~> Terminal(s)
        /\ StepsSucceed(s) ~> CompletedWithFiles(s)

\* The fields of one session, or of a status response, agree.
FieldsAgree(session) ==
    /\ session.progress = 100 <=> session.status = "completed"
    /\ session.status = "error"
          <=> (session.progress = 0 /\ session.error # None)
    /\ session.error # None => session.status = "error"
    /\ session.progress = 0 <=> session.status \in {"error", "pending"}
    /\ session.files # <<>> => session.status = "completed"
    /\ session.status \in {"pending", "processing", "completed", "error"}

StatusMoves ==
    { <<"pending", "processing">>, <<"processing", "completed">>,
      <<"processing", "error">> }

\* One step of the program, seen from session s: a new session is
\* pending, and a session that was there keeps its status or moves it
\* along one of the three edges.
StatusMovesForward(s) ==
    /\ Exists(s) => s \in DOMAIN processing_sessions'
    /\ (~Exists(s) /\ s \in DOMAIN processing_sessions')
          => processing_sessions'[s].status = "pending"
    /\ Exists(s)
          => \/ processing_sessions'[s].status = processing_sessions[s].status
             \/ <<processing_sessions[s].status,
                  processing_sessions'[s].status>> \in StatusMoves

\* A step of the task of session s leaves every other session as it was.
OthersUntouched(s) ==
    process_vm_assessment(s)
        => \A t \in DOMAIN processing_sessions \ {s} :
              processing_sessions'[t] = processing_sessions[t]

\* C30: a session's status only moves pending -> processing -> completed
\* or pending -> processing -> error, and completed and error are never
\* left; in every reachable state progress is 100 iff the status is
\* completed, progress is 0 and the error is set iff the status is error
\* (progress is 0 for pending too), the files list is non-empty only when
\* the status is completed; and the processing of one session never
\* changes another session's fields.
C30_SessionLifecycle ==
    /\ [] (\A s \in DOMAIN processing_sessions :
              FieldsAgree(processing_sessions[s]))
    /\ [] (response.status # None => FieldsAgree(response))
    /\ [][\A s \in SessionIds :
              StatusMovesForward(s) /\ OthersUntouched(s)]_vars

\* One session has ended in error with progress 0 and the error set, and
\* its status was read, while another has moved on to progress 80.
C30_Witness ==
    /\ Exists(1) /\ Exists(2)
    /\ processing_sessions[1].status = "error"
    /\ processing_sessions[1].progress = 0
    /\ processing_sessions[1].error = MissingArgument
    /\ processing_sessions[2].status = "processing"
    /\ processing_sessions[2].progress = 80
    /\ response.status = "error"
    /\ response.error = MissingArgument

=============================================================================
